---- MODULE Spec2Model ----
(***************************************************************************)
(* Model of osdctl commands:                                               *)
(*   - EventAPI.GetEvents (cmd/cloudtrail/event.go): a producer goroutine  *)
(*     that pages through the CloudTrail LookupEvents API and hands every  *)
(*     page to the caller over an unbuffered channel;                      *)
(*   - ExtractUserDetails (cmd/cloudtrail/event.go): decode one event      *)
(*     payload and check its eventVersion against the supported window;    *)
(*   - cluster cad run (cmd/cluster/cad/run.go): validate the options and  *)
(*     schedule a Tekton PipelineRun on the CAD cluster;                   *)
(*   - cluster resize control-plane (cmd/cluster/cad/run.go, package       *)
(*     resize): patch the ControlPlaneMachineSet after confirmation, the   *)
(*     set-up of the command, the operator dialogs and the node drain;     *)
(*   - FetchClusterDetails (cmd/dynatrace/cluster.go): what the dynatrace  *)
(*     commands learn about an HCP or management cluster.                  *)
(***************************************************************************)
EXTENDS Integers, Sequences, FiniteSets, TLC

VARIABLES
    mode,             \* which component this behaviour exercises
    writeOnly,        \* EventAPI.writeOnly
    remote,           \* the pages held by the remote CloudTrail service
    period,           \* the Period argument of GetEvents
    input,            \* cloudtrail.LookupEventsInput built by GetEvents
    paginator,        \* LookupEventsPaginator: firstPage, nextToken
    pc,               \* position of the producer goroutine
    lookupOutput,     \* producer local: output of the last NextPage
    err,              \* producer local: error of the last NextPage
    alllookupEvents,  \* producer local: every event seen so far
    closed,           \* pageChan has been closed
    closeCount,       \* number of close(pageChan) executed
    crashed,          \* the process died of an unrecovered panic
    consumer,         \* position of the caller that reads pageChan
    received,         \* EventResults the consumer took from pageChan
    sentCount,        \* number of completed sends on pageChan
    requests,         \* LookupEvents requests seen by the remote service
    served,           \* what each NextPage call returned to the producer
    failures,         \* number of NextPage calls that failed
    cloudTrailEvent,  \* argument of ExtractUserDetails
    extractOut,       \* what ExtractUserDetails returned
    opts,             \* cadRunOptions
    viperConfig,      \* cad_grafana_url and cad_aws_account_id of the config
    cadPc,            \* position inside cadRunOptions.run
    cadErr,           \* error returned by cadRunOptions.run
    cadClusterID,     \* run local: CAD cluster to connect to
    cadNamespace,     \* run local, and argument of pipelineRunTemplate
    ocmConns,         \* OCM connections requested, by environment
    k8sClients,       \* clusters an elevated client was requested for
    pipelineRuns,     \* objects created on CAD clusters
    uObject,          \* u: the object built by pipelineRunTemplate
    logsLink,         \* run local: the Grafana link, empty when not built
    printed,          \* what run printed
    cpEnv,            \* the cluster a resize runs against
    newMachineType,   \* controlPlane.newMachineType
    cpPc,             \* position inside controlPlane.run
    cpErr,            \* error returned by controlPlane.run
    rawBytes,         \* run local: the marshalled provider spec
    cpTrace,          \* what controlPlane.run has done so far, in order
    cpmsRemote,       \* provider spec of the ControlPlaneMachineSet on the cluster
    slPosted,         \* service logs posted
    ops,              \* the controlPlane struct New works on
    ocmTarget,        \* the cluster OCM holds under the given key
    newPc,            \* position inside controlPlane.New
    newErr,           \* error returned by controlPlane.New
    newClients,       \* Kubernetes clients New asked for, in order
    dEntry,           \* the dialog or drain function that was called
    dPc,              \* position inside it and the functions it calls
    dErr,             \* error it returned
    dResp,            \* optionsDialogResponse a dialog returned
    dTrace,           \* drains, invocations of fn and answers, in order
    lastLine,         \* responseBytes of the last ReadLine
    prompts,          \* number of times a dialog printed its question
    drained,          \* the node has been drained
    fcCluster,        \* the cluster FetchClusterDetails is called for
    fcEnv,            \* outcome of each OCM call FetchClusterDetails makes
    fcPc,             \* FetchClusterDetails was called
    fcOut             \* what FetchClusterDetails returned

vars == <<mode, writeOnly, remote, period, input, paginator, pc, lookupOutput,
          err, alllookupEvents, closed, closeCount, crashed, consumer,
          received, sentCount, requests, served, failures,
          cloudTrailEvent, extractOut,
          opts, viperConfig, cadPc, cadErr, cadClusterID, cadNamespace,
          ocmConns, k8sClients, pipelineRuns, uObject, logsLink, printed,
          cpEnv, newMachineType, cpPc, cpErr, rawBytes, cpTrace, cpmsRemote,
          slPosted,
          ops, ocmTarget, newPc, newErr, newClients,
          dEntry, dPc, dErr, dResp, dTrace, lastLine, prompts, drained,
          fcCluster, fcEnv, fcPc, fcOut>>

pagVars == <<writeOnly, remote, period, input, paginator, pc, lookupOutput,
             err, alllookupEvents, closed, closeCount, crashed, consumer,
             received, sentCount, requests, served, failures>>

extVars == <<cloudTrailEvent, extractOut>>

cadVars == <<opts, viperConfig, cadPc, cadErr, cadClusterID, cadNamespace,
             ocmConns, k8sClients, pipelineRuns, uObject, logsLink, printed>>

cpVars == <<cpEnv, newMachineType, cpPc, cpErr, rawBytes, cpTrace, cpmsRemote,
            slPosted>>

newVars == <<ops, ocmTarget, newPc, newErr, newClients>>

drainVars == <<dEntry, dPc, dErr, dResp, dTrace, lastLine, prompts, drained>>

fetchVars == <<fcCluster, fcEnv, fcPc, fcOut>>

----------------------------------------------------------------------------
(* Bounds *)

MaxPages == 3       \* most pages the remote service holds
MaxPageSize == 2    \* most events in one remote page
MaxTime == 2        \* instants a Period can name
MaxFailures == 2    \* most NextPage calls that fail in one run
MaxVersionLen == 4  \* longest eventVersion string

----------------------------------------------------------------------------
(* Values *)

Nil == "nil"

\* A nil *cloudtrail.LookupEventsOutput.
NilOutput == [isNil |-> TRUE]

\* A nil *string, the "missing" argument of ExtractUserDetails.
NilRef == [ref |-> "nil"]

\* ExtractUserDetails has not returned yet.
NotCalledOut == [called |-> FALSE]

\* A nil []types.Event: a slice of length 0.
NilEvents == << >>

\* The remote audit log is the events 1, 2, 3, ... in the service's order;
\* the even ones are read-only actions, the odd ones writes.
IsReadOnly(e) == e % 2 = 0

Times == 1..MaxTime

RECURSIVE SeqsUpTo(_, _)
SeqsUpTo(S, n) ==
    IF n = 0 THEN {<< >>}
    ELSE LET shorter == SeqsUpTo(S, n - 1)
         IN  shorter \cup {Append(s, x) : s \in {t \in shorter : Len(t) = n - 1}, x \in S}

RECURSIVE PagesOf(_, _)
\* The log cut into pages of the given sizes, the first event being first.
PagesOf(sizes, first) ==
    IF sizes = << >> THEN << >>
    ELSE <<[i \in 1..Head(sizes) |-> first + i - 1]>>
            \o PagesOf(Tail(sizes), first + Head(sizes))

\* What the remote service can hold: one to MaxPages pages of zero to
\* MaxPageSize events each.
Remotes ==
    {PagesOf(sizes, 1) : sizes \in SeqsUpTo(0..MaxPageSize, MaxPages) \ {<< >>}}

----------------------------------------------------------------------------
(* EventResult, event.go:31-34 *)

EventResult(events, e) == [AWSEvent |-> events, errors |-> e]

\* Slip: the error emission without its error.
ErrorResultWithoutError(e) == EventResult(NilEvents, Nil)

\* event.go:84-87: the emission for a failed fetch
ErrorResult(e) == EventResult(NilEvents, e)

\* Slip: the page emission built like the error emission, without records.
PageResultNoRecords(out) == EventResult(NilEvents, Nil)

\* event.go:91-94: the emission for a fetched page
PageResult(out) == EventResult(out.Events, Nil)

----------------------------------------------------------------------------
(* Query construction, event.go:65-75 *)

ReadOnlyFalse == [AttributeKey |-> "ReadOnly", AttributeValue |-> "false"]

\* Slip: the ReadOnly attribute set whatever the flag says.
LookupAttributesAlways(wo) == <<ReadOnlyFalse>>

LookupAttributesFor(wo) == IF wo THEN <<ReadOnlyFalse>> ELSE << >>

LookupEventsInput(p, wo) ==
    [StartTime |-> p.StartTime,
     EndTime |-> p.EndTime,
     LookupAttributes |-> LookupAttributesFor(wo)]

----------------------------------------------------------------------------
(* The remote service and the SDK paginator used at event.go:76-82 *)

\* Server-side filter: ReadOnly=false drops the read-only events.
Matches(q, e) ==
    \A i \in 1..Len(q.LookupAttributes) :
        (q.LookupAttributes[i] = ReadOnlyFalse) => ~IsReadOnly(e)

\* One LookupEvents round trip: the page the token names, filtered, and the
\* token of the page after it (0 when there is none).
LookupEvents(rem, q, token) ==
    LET idx == IF token = 0 THEN 1 ELSE token
    IN  [Events |-> SelectSeq(rem[idx], LAMBDA e : Matches(q, e)),
         NextToken |-> IF idx < Len(rem) THEN idx + 1 ELSE 0]

NewLookupEventsPaginator == [firstPage |-> TRUE, nextToken |-> 0]

HasMorePages(p) == p.firstPage \/ p.nextToken # 0

\* NextPage: on failure the SDK returns a nil output with the error and
\* leaves the paginator where it was; on success it stores the next token.
NextPage(p, rem, q, ok) ==
    IF ok
    THEN LET out == LookupEvents(rem, q, p.nextToken)
         IN  [out |-> out, err |-> Nil,
              pag |-> [firstPage |-> FALSE, nextToken |-> out.NextToken]]
    ELSE [out |-> NilOutput, err |-> "PageFetchError", pag |-> p]

\* Slip: the error of NextPage is never looked at.
AfterNextPageNoErrorCheck(e) == "append"

\* event.go:83: only a failed fetch takes the error emission first.
AfterNextPage(e) == IF e # Nil THEN "sendErr" ELSE "append"

----------------------------------------------------------------------------
(* The unbuffered channel, event.go:63 *)

\* Slip: a buffered channel, a send completes without a receiver.
SendReadyBuffered(c) == TRUE

\* A send on pageChan completes only while a receiver is waiting.
SendReady(c) == c = "receiving"

\* The receiver takes the value the sender hands over.
Deliver(rcv, c, r) == IF c = "receiving" THEN Append(rcv, r) ELSE rcv

----------------------------------------------------------------------------
(* The commands that a behaviour does not exercise stay as they start *)

\* A nil *unstructured.Unstructured.
NilObject == [isNil |-> TRUE]

\* No provider spec at all.
NoSpec == [kind |-> "none"]

InitCadIdle ==
    /\ opts = [clusterID |-> "", investigation |-> "", elevationReason |-> "",
               environment |-> "", isDryRun |-> FALSE]
    /\ viperConfig = [grafanaURL |-> "", awsAccountID |-> ""]
    /\ cadPc = "idle"
    /\ cadErr = Nil
    /\ cadClusterID = ""
    /\ cadNamespace = ""
    /\ ocmConns = << >>
    /\ k8sClients = << >>
    /\ pipelineRuns = << >>
    /\ uObject = NilObject
    /\ logsLink = << >>
    /\ printed = << >>

InitResizeIdle ==
    /\ cpEnv = [provider |-> "", state |-> "", raw |-> NoSpec]
    /\ newMachineType = ""
    /\ cpPc = "idle"
    /\ cpErr = Nil
    /\ rawBytes = NoSpec
    /\ cpTrace = << >>
    /\ cpmsRemote = NoSpec
    /\ slPosted = << >>

\* A nil *cmv1.Cluster.
NilCluster == [isNil |-> TRUE]

\* A nil client.Client.
NilClient == [isNil |-> TRUE]

\* optionsDialogResponse, run.go:717-725
Undefined == 0
Retry == 1
Skip == 2
Force == 3
Cancel == 4

\* HCPCluster{}, cluster.go:10-22: every field empty.  The three namespace
\* fields are built from parts and are sequences of them.
ZeroHCPCluster ==
    [name |-> "", internalID |-> "", externalID |-> "",
     managementClusterID |-> "", klusterletNS |-> << >>, hostedNS |-> << >>,
     hcpNamespace |-> << >>, managementClusterName |-> "",
     DynatraceURL |-> "", serviceClusterID |-> "", serviceClusterName |-> ""]

NotReturned == [returned |-> FALSE]

InitNewIdle ==
    /\ ops = [clusterID |-> "", newMachineType |-> "", reason |-> "",
              cluster |-> NilCluster, client |-> NilClient,
              clientAdmin |-> NilClient]
    /\ ocmTarget = NilCluster
    /\ newPc = "idle"
    /\ newErr = Nil
    /\ newClients = << >>

InitDrainIdle ==
    /\ dEntry = "none"
    /\ dPc = "idle"
    /\ dErr = Nil
    /\ dResp = Undefined
    /\ dTrace = << >>
    /\ lastLine = << >>
    /\ prompts = 0
    /\ drained = FALSE

InitFetchIdle ==
    /\ fcCluster = NilCluster
    /\ fcEnv = [none |-> TRUE]
    /\ fcPc = "idle"
    /\ fcOut = NotReturned

----------------------------------------------------------------------------
(* Initial states *)

InitPagIdle ==
    /\ period = [StartTime |-> 0, EndTime |-> 0]
    /\ input = [StartTime |-> 0, EndTime |-> 0, LookupAttributes |-> << >>]
    /\ paginator = [firstPage |-> FALSE, nextToken |-> 0]
    /\ pc = "idle"
    /\ lookupOutput = NilOutput
    /\ err = Nil
    /\ alllookupEvents = << >>
    /\ closed = FALSE
    /\ closeCount = 0
    /\ crashed = FALSE
    /\ consumer = "idle"
    /\ received = << >>
    /\ sentCount = 0
    /\ requests = << >>
    /\ served = << >>
    /\ failures = 0

\* NewEventAPI, event.go:41-58: the API object holds the writeOnly flag.
NewEventAPI ==
    /\ writeOnly \in BOOLEAN
    /\ remote \in Remotes

Init ==
    /\ mode = "paginate"
    /\ NewEventAPI
    /\ InitPagIdle
    /\ cloudTrailEvent = NilRef
    /\ extractOut = NotCalledOut
    /\ InitCadIdle
    /\ InitResizeIdle
    /\ InitNewIdle
    /\ InitDrainIdle
    /\ InitFetchIdle

----------------------------------------------------------------------------
(* GetEvents, event.go:60-100 *)

\* The call itself: build the query and the paginator, start the goroutine,
\* return the channel to the caller, who starts receiving.
GetEvents ==
    /\ mode = "paginate"
    /\ pc = "idle"
    /\ \E s \in Times, e \in Times :
          /\ period' = [StartTime |-> s, EndTime |-> e]
          /\ input' = LookupEventsInput(period', writeOnly)
    /\ paginator' = NewLookupEventsPaginator
    /\ pc' = "loop"
    /\ consumer' = "receiving"
    /\ UNCHANGED <<mode, writeOnly, remote, lookupOutput, err, alllookupEvents,
                   closed, closeCount, crashed, received, sentCount, requests,
                   served, failures>>
    /\ UNCHANGED <<extVars, cadVars, cpVars, newVars, drainVars, fetchVars>>

\* event.go:81-82: another page remains, fetch it.
ProducerNextPage ==
    /\ pc = "loop"
    /\ ~crashed
    /\ HasMorePages(paginator)
    /\ \E ok \in BOOLEAN :
          /\ ok \/ failures < MaxFailures
          /\ LET r == NextPage(paginator, remote, input, ok)
             IN  /\ lookupOutput' = r.out
                 /\ err' = r.err
                 /\ paginator' = r.pag
                 /\ served' = Append(served, [out |-> r.out, err |-> r.err])
                 /\ pc' = AfterNextPage(r.err)
          /\ failures' = IF ok THEN failures ELSE failures + 1
    /\ requests' = Append(requests, [query |-> input, token |-> paginator.nextToken])
    /\ UNCHANGED <<mode, writeOnly, remote, period, input, alllookupEvents,
                   closed, closeCount, crashed, consumer, received, sentCount>>
    /\ UNCHANGED <<extVars, cadVars, cpVars, newVars, drainVars, fetchVars>>

\* event.go:83-88: hand the error to the consumer; there is no continue or
\* return after the send, control falls through to line 89.
ProducerSendError ==
    /\ pc = "sendErr"
    /\ ~crashed
    /\ SendReady(consumer)
    /\ received' = Deliver(received, consumer, ErrorResult(err))
    /\ sentCount' = sentCount + 1
    /\ pc' = "append"
    /\ UNCHANGED <<mode, writeOnly, remote, period, input, paginator,
                   lookupOutput, err, alllookupEvents, closed, closeCount,
                   crashed, consumer, requests, served, failures>>
    /\ UNCHANGED <<extVars, cadVars, cpVars, newVars, drainVars, fetchVars>>

\* event.go:89 with a non-nil output: remember the events of the page.
ProducerAppend ==
    /\ pc = "append"
    /\ ~crashed
    /\ lookupOutput # NilOutput
    /\ alllookupEvents' = alllookupEvents \o lookupOutput.Events
    /\ pc' = "sendPage"
    /\ UNCHANGED <<mode, writeOnly, remote, period, input, paginator,
                   lookupOutput, err, closed, closeCount, crashed, consumer,
                   received, sentCount, requests, served, failures>>
    /\ UNCHANGED <<extVars, cadVars, cpVars, newVars, drainVars, fetchVars>>

\* event.go:89 with a nil output: lookupOutput.Events dereferences nil, the
\* goroutine panics, and the deferred close of line 79 runs while unwinding.
ProducerPanic ==
    /\ pc = "append"
    /\ ~crashed
    /\ lookupOutput = NilOutput
    /\ closed' = TRUE
    /\ closeCount' = closeCount + 1
    /\ pc' = "panicked"
    /\ UNCHANGED <<mode, writeOnly, remote, period, input, paginator,
                   lookupOutput, err, alllookupEvents, crashed, consumer,
                   received, sentCount, requests, served, failures>>
    /\ UNCHANGED <<extVars, cadVars, cpVars, newVars, drainVars, fetchVars>>

\* An unrecovered panic in a goroutine ends the whole process.
ProcessExit ==
    /\ pc = "panicked"
    /\ ~crashed
    /\ crashed' = TRUE
    /\ UNCHANGED <<mode, writeOnly, remote, period, input, paginator, pc,
                   lookupOutput, err, alllookupEvents, closed, closeCount,
                   consumer, received, sentCount, requests, served, failures>>
    /\ UNCHANGED <<extVars, cadVars, cpVars, newVars, drainVars, fetchVars>>

\* event.go:91-94: hand the page to the consumer.
ProducerSendPage ==
    /\ pc = "sendPage"
    /\ ~crashed
    /\ SendReady(consumer)
    /\ received' = Deliver(received, consumer, PageResult(lookupOutput))
    /\ sentCount' = sentCount + 1
    /\ pc' = "loop"
    /\ UNCHANGED <<mode, writeOnly, remote, period, input, paginator,
                   lookupOutput, err, alllookupEvents, closed, closeCount,
                   crashed, consumer, requests, served, failures>>
    /\ UNCHANGED <<extVars, cadVars, cpVars, newVars, drainVars, fetchVars>>

\* event.go:81 and 79: no page remains, the goroutine returns and the
\* deferred close runs.
ProducerReturn ==
    /\ pc = "loop"
    /\ ~crashed
    /\ ~HasMorePages(paginator)
    /\ closed' = TRUE
    /\ closeCount' = closeCount + 1
    /\ pc' = "done"
    /\ UNCHANGED <<mode, writeOnly, remote, period, input, paginator,
                   lookupOutput, err, alllookupEvents, crashed, consumer,
                   received, sentCount, requests, served, failures>>
    /\ UNCHANGED <<extVars, cadVars, cpVars, newVars, drainVars, fetchVars>>

\* The caller's receive on a closed channel: the range loop ends.
ConsumerSeesClose ==
    /\ consumer = "receiving"
    /\ ~crashed
    /\ closed
    /\ consumer' = "done"
    /\ UNCHANGED <<mode, writeOnly, remote, period, input, paginator, pc,
                   lookupOutput, err, alllookupEvents, closed, closeCount,
                   crashed, received, sentCount, requests, served, failures>>
    /\ UNCHANGED <<extVars, cadVars, cpVars, newVars, drainVars, fetchVars>>

\* The caller stops receiving before the channel is closed.
ConsumerAbandons ==
    /\ consumer = "receiving"
    /\ ~crashed
    /\ ~closed
    /\ consumer' = "abandoned"
    /\ UNCHANGED <<mode, writeOnly, remote, period, input, paginator, pc,
                   lookupOutput, err, alllookupEvents, closed, closeCount,
                   crashed, received, sentCount, requests, served, failures>>
    /\ UNCHANGED <<extVars, cadVars, cpVars, newVars, drainVars, fetchVars>>

Next ==
    \/ GetEvents
    \/ ProducerNextPage
    \/ ProducerSendError
    \/ ProducerAppend
    \/ ProducerPanic
    \/ ProcessExit
    \/ ProducerSendPage
    \/ ProducerReturn
    \/ ConsumerSeesClose
    \/ ConsumerAbandons

Spec == Init /\ [][Next]_vars

----------------------------------------------------------------------------
(* Properties of GetEvents *)

\* The page the remote service returns for its k-th page under the query
\* of this run.
RemotePage(k) ==
    IF writeOnly THEN SelectSeq(remote[k], LAMBDA e : e % 2 = 1)
    ELSE remote[k]

RECURSIVE RecordCount(_)
RecordCount(rs) ==
    IF rs = << >> THEN 0 ELSE Len(Head(rs).AWSEvent) + RecordCount(Tail(rs))

RECURSIVE RemoteRecordCount(_)
RemoteRecordCount(k) ==
    IF k = 0 THEN 0 ELSE Len(RemotePage(k)) + RemoteRecordCount(k - 1)

SomeErrorReceived == \E k \in 1..Len(received) : received[k].errors # Nil

\* C1: in a run without a failed fetch, a consumer that received until it
\* saw the channel closed holds exactly one result per remote page, the k-th
\* carrying the records of the k-th page in the remote's order and a nil
\* error, and the records received add up to the sum of the page sizes.
C1_ErrorFreeRun ==
    (consumer = "done" /\ failures = 0) =>
        /\ closed
        /\ Len(received) = Len(remote)
        /\ \A k \in 1..Len(remote) :
              received[k] = [AWSEvent |-> RemotePage(k), errors |-> Nil]
        /\ RecordCount(received) = RemoteRecordCount(Len(remote))

\* The scenario of pages of sizes 2, 2, 1: three results, five records.
C1_Witness ==
    /\ consumer = "done"
    /\ failures = 0
    /\ ~writeOnly
    /\ Len(remote) = 3
    /\ Len(remote[1]) = 2 /\ Len(remote[2]) = 2 /\ Len(remote[3]) = 1
    /\ received[3].AWSEvent = <<5>>
    /\ Len(received) = 3
    /\ RecordCount(received) = 5

\* C2: after a failed fetch the consumer holds a result with that error and
\* no records, the stream is not ended by it and the producer goes on to
\* the next fetch: the producer is never stopped by an error it reported.
C2_ContinuesAfterError ==
    SomeErrorReceived =>
        /\ \A k \in 1..Len(received) :
              received[k].errors # Nil => received[k].AWSEvent = NilEvents
        /\ pc # "panicked"
        /\ ~crashed
        /\ (closed => ~HasMorePages(paginator))

\* C3: the channel is closed at most once, only when no further page
\* remains, with or without failed fetches, and nothing is sent afterwards.
C3_ClosedOnceWhenExhausted ==
    /\ closeCount <= 1
    /\ closed <=> closeCount = 1
    /\ closed => ~HasMorePages(paginator)
    /\ closed => pc \notin {"sendErr", "sendPage", "append"}

\* C4: one result per fetch.  Whenever the producer is not between the
\* return of NextPage and the end of the send of its result, as many
\* results were sent as NextPage calls completed; a fetch never has more
\* than one result; and the result of a failed fetch carries the error and
\* no records.
C4_OneResultPerFetch ==
    /\ sentCount <= Len(requests)
    /\ Len(requests) <= sentCount + 1
    /\ pc \in {"loop", "done", "panicked"} => sentCount = Len(requests)
    /\ Len(received) = sentCount
    /\ \A k \in 1..Len(received) :
          served[k].err # Nil =>
              received[k] = [AWSEvent |-> NilEvents, errors |-> served[k].err]

C4_Witness ==
    /\ pc = "panicked"
    /\ Len(requests) = 3
    /\ sentCount = 3
    /\ received[3].errors = "PageFetchError"

\* C5 as stated: every result has either records or an error, never both
\* and never neither.
C5_ExactlyOneOf ==
    \A k \in 1..Len(received) :
        (received[k].AWSEvent # << >>) <=> (received[k].errors = Nil)

\* C5 as amended: no result has both records and an error; a result with an
\* error has no records; a result has neither exactly when its fetch
\* succeeded and the remote returned a page with zero events.
C5_AtMostOneOf ==
    \A k \in 1..Len(received) :
        /\ ~(received[k].AWSEvent # << >> /\ received[k].errors # Nil)
        /\ (received[k].AWSEvent = << >> /\ received[k].errors = Nil)
              <=> (served[k].err = Nil /\ served[k].out.Events = << >>)

C5_Witness ==
    /\ Len(received) = 2
    /\ received[1].AWSEvent # << >>
    /\ received[2] = [AWSEvent |-> << >>, errors |-> Nil]
    /\ ~writeOnly

\* C6: once the consumer has stopped receiving while the producer waits in
\* a send, the producer stays in that send: no further fetch, no close, and
\* the consumer does not come back.
C6_AbandonedProducerBlocks ==
    [][(consumer = "abandoned" /\ pc \in {"sendErr", "sendPage"}) =>
          /\ pc' = pc
          /\ requests' = requests
          /\ sentCount' = sentCount
          /\ ~closed /\ ~closed'
          /\ consumer' = "abandoned"]_vars

C6_Witness ==
    /\ consumer = "abandoned"
    /\ pc = "sendPage"
    /\ Len(received) = 1
    /\ HasMorePages(paginator)

\* C7: at most one fetched page awaits delivery, and the producer is at the
\* point of fetching only when every earlier fetch's result was received.
C7_UnbufferedHandoff ==
    /\ Len(requests) - Len(received) \in {0, 1}
    /\ pc = "loop" => Len(received) = Len(requests)

C7_Witness ==
    /\ pc = "sendPage"
    /\ Len(requests) = 2
    /\ Len(received) = 1
    /\ consumer = "receiving"

\* C8: the query carries ReadOnly=false exactly when the API is write-only,
\* its window is the caller's period, every request the remote sees is that
\* query, and a result's records are the records the remote returned.
C8_Filtering ==
    /\ pc # "idle" =>
          /\ (input.LookupAttributes = <<ReadOnlyFalse>>) <=> writeOnly
          /\ ~writeOnly => input.LookupAttributes = << >>
          /\ input.StartTime = period.StartTime
          /\ input.EndTime = period.EndTime
    /\ \A i \in 1..Len(requests) : requests[i].query = input
    /\ \A k \in 1..Len(received) :
          received[k].errors = Nil =>
              /\ served[k].out # NilOutput
              /\ received[k].AWSEvent = served[k].out.Events
              /\ received[k].AWSEvent = RemotePage(k)

C8_Witness ==
    /\ writeOnly
    /\ Len(received) = 2
    /\ remote[2] = <<3, 4>>
    /\ received[2].AWSEvent = <<3>>
    /\ period.StartTime = 1 /\ period.EndTime = 2

----------------------------------------------------------------------------
(* Event payloads handed to ExtractUserDetails *)

\* Characters an eventVersion is written with.
Digits == {"0", "1", "2", "7", "8"}

VersionChars == Digits \cup {".", "a", "-", " "}

VersionStrings == SeqsUpTo(VersionChars, MaxVersionLen)

DigitVal(c) ==
    CASE c = "0" -> 0 [] c = "1" -> 1 [] c = "2" -> 2 [] c = "3" -> 3
      [] c = "4" -> 4 [] c = "5" -> 5 [] c = "6" -> 6 [] c = "7" -> 7
      [] c = "8" -> 8 [] c = "9" -> 9

\* JSON values of a payload.
JAbsent == [type |-> "absent"]
JNull == [type |-> "null"]
JNumber == [type |-> "number"]
JString(str) == [type |-> "string", val |-> str]
JObject(f) == [type |-> "object", fields |-> f]

\* A non-nil *string points to a text: the empty string, something that is
\* not JSON, or a JSON document.
Ref(text) == [ref |-> "ptr", text |-> text]
EmptyText == [kind |-> "empty"]
MalformedText == [kind |-> "malformed"]
JSONText(v) == [kind |-> "json", value |-> v]

----------------------------------------------------------------------------
(* RawEventDetails and json.Unmarshal into it, event.go:14-29 and 107-111 *)

ZeroSessionIssuer == [Type |-> << >>, UserName |-> << >>, Arn |-> << >>]

ZeroUserIdentity ==
    [AccountId |-> << >>,
     SessionContext |-> [SessionIssuer |-> ZeroSessionIssuer]]

\* &RawEventDetails{}
ZeroRawEventDetails ==
    [EventVersion |-> << >>,
     UserIdentity |-> ZeroUserIdentity,
     EventRegion |-> << >>,
     EventId |-> << >>,
     ErrorCode |-> << >>]

\* Slip: every key is required, an absent one is an error.
DecodeStringRequired(v) ==
    CASE v.type = "string" -> [ok |-> TRUE, val |-> v.val]
      [] v.type = "null" -> [ok |-> TRUE, val |-> << >>]
      [] OTHER -> [ok |-> FALSE, val |-> << >>]

\* Slip: a value of another JSON type is skipped instead of reported.
DecodeStringLenient(v) ==
    CASE v.type = "string" -> [ok |-> TRUE, val |-> v.val]
      [] OTHER -> [ok |-> TRUE, val |-> << >>]

\* Decoding into a string field: an absent key or a null leaves the zero
\* value, a JSON string is stored, any other JSON type is a type error.
DecodeString(v) ==
    CASE v.type = "string" -> [ok |-> TRUE, val |-> v.val]
      [] v.type \in {"absent", "null"} -> [ok |-> TRUE, val |-> << >>]
      [] OTHER -> [ok |-> FALSE, val |-> << >>]

DecodeSessionIssuer(v) ==
    CASE v.type = "object" ->
            LET t == DecodeString(v.fields.type)
                u == DecodeString(v.fields.userName)
                a == DecodeString(v.fields.arn)
            IN  [ok |-> t.ok /\ u.ok /\ a.ok,
                 val |-> [Type |-> t.val, UserName |-> u.val, Arn |-> a.val]]
      [] v.type \in {"absent", "null"} -> [ok |-> TRUE, val |-> ZeroSessionIssuer]
      [] OTHER -> [ok |-> FALSE, val |-> ZeroSessionIssuer]

DecodeSessionContext(v) ==
    CASE v.type = "object" ->
            LET i == DecodeSessionIssuer(v.fields.sessionIssuer)
            IN  [ok |-> i.ok, val |-> [SessionIssuer |-> i.val]]
      [] v.type \in {"absent", "null"} ->
            [ok |-> TRUE, val |-> [SessionIssuer |-> ZeroSessionIssuer]]
      [] OTHER -> [ok |-> FALSE, val |-> [SessionIssuer |-> ZeroSessionIssuer]]

DecodeUserIdentity(v) ==
    CASE v.type = "object" ->
            LET a == DecodeString(v.fields.accountId)
                c == DecodeSessionContext(v.fields.sessionContext)
            IN  [ok |-> a.ok /\ c.ok,
                 val |-> [AccountId |-> a.val, SessionContext |-> c.val]]
      [] v.type \in {"absent", "null"} -> [ok |-> TRUE, val |-> ZeroUserIdentity]
      [] OTHER -> [ok |-> FALSE, val |-> ZeroUserIdentity]

\* json.Unmarshal([]byte(text), &res): keys the struct does not name (extra)
\* are skipped; a top-level null decodes to the zero struct; text that is
\* not JSON, or a top-level value that is not an object, is an error.
Unmarshal(text) ==
    CASE text.kind \in {"empty", "malformed"} ->
            [err |-> "SyntaxError", res |-> ZeroRawEventDetails]
      [] text.value.type = "null" ->
            [err |-> Nil, res |-> ZeroRawEventDetails]
      [] text.value.type # "object" ->
            [err |-> "UnmarshalTypeError", res |-> ZeroRawEventDetails]
      [] OTHER ->
            LET f == text.value.fields
                ver == DecodeString(f.eventVersion)
                uid == DecodeUserIdentity(f.userIdentity)
                reg == DecodeString(f.awsRegion)
                eid == DecodeString(f.eventID)
                ec  == DecodeString(f.errorCode)
            IN  [err |-> IF ver.ok /\ uid.ok /\ reg.ok /\ eid.ok /\ ec.ok
                         THEN Nil ELSE "UnmarshalTypeError",
                 res |-> [EventVersion |-> ver.val,
                          UserIdentity |-> uid.val,
                          EventRegion |-> reg.val,
                          EventId |-> eid.val,
                          ErrorCode |-> ec.val]]

----------------------------------------------------------------------------
(* fmt.Sscanf(res.EventVersion, "%d.%d", ...), event.go:116-119 *)

RECURSIVE SkipSpace(_, _)
SkipSpace(str, i) ==
    IF i <= Len(str) /\ str[i] = " " THEN SkipSpace(str, i + 1) ELSE i

RECURSIVE ScanDigits(_, _, _)
\* Consume digits from position i on; acc is the value read so far.
ScanDigits(str, i, acc) ==
    IF i <= Len(str) /\ str[i] \in Digits
    THEN ScanDigits(str, i + 1, acc * 10 + DigitVal(str[i]))
    ELSE [val |-> acc, next |-> i]

\* The verb %d: skip spaces, take an optional sign, then one or more digits.
ScanInt(str, from) ==
    LET i == SkipSpace(str, from)
    IN  IF i > Len(str)
        THEN [err |-> "unexpected EOF", val |-> 0, next |-> i]
        ELSE LET neg == str[i] = "-"
                 j == IF neg THEN i + 1 ELSE i
             IN  IF j > Len(str) \/ str[j] \notin Digits
                 THEN [err |-> "expected integer", val |-> 0, next |-> j]
                 ELSE LET d == ScanDigits(str, j, 0)
                      IN  [err |-> Nil,
                           val |-> IF neg THEN 0 - d.val ELSE d.val,
                           next |-> d.next]

\* The whole format: %d, a literal '.', %d.  Input left over after the
\* second number is not looked at.
Sscanf(str) ==
    LET a == ScanInt(str, 1)
    IN  IF a.err # Nil THEN [err |-> a.err, major |-> 0, minor |-> 0]
        ELSE IF a.next > Len(str)
        THEN [err |-> "unexpected EOF", major |-> a.val, minor |-> 0]
        ELSE IF str[a.next] # "."
        THEN [err |-> "input does not match format", major |-> a.val, minor |-> 0]
        ELSE LET b == ScanInt(str, a.next + 1)
             IN  [err |-> b.err, major |-> a.val,
                  minor |-> IF b.err = Nil THEN b.val ELSE 0]

----------------------------------------------------------------------------
(* ExtractUserDetails, event.go:103-124 *)

supportedEventVersionMajor == 1
minSupportedEventVersionMinor == 8

\* Slip: only the nil reference is rejected, the empty string is decoded.
IsInvalidInputNilOnly(ref) == ref = NilRef

\* event.go:104
IsInvalidInput(ref) == ref = NilRef \/ ref.text = EmptyText

\* Slip: the minimum minor version itself is rejected.
VersionSupportedAboveMinimum(major, minor) ==
    major = supportedEventVersionMajor /\ minor > minSupportedEventVersionMinor

\* event.go:120, negated: the version is inside the window.
VersionSupported(major, minor) ==
    ~(major # supportedEventVersionMajor \/ minor < minSupportedEventVersionMinor)

\* Slip: a failure return that leaves the error nil.
FailureWithoutError(e, dec) ==
    [called |-> TRUE, details |-> ZeroRawEventDetails, err |-> Nil,
     decodeAttempted |-> dec, panicked |-> FALSE]

\* event.go:105, 110, 118, 121: &RawEventDetails{} and the error.
Failure(e, dec) ==
    [called |-> TRUE, details |-> ZeroRawEventDetails, err |-> e,
     decodeAttempted |-> dec, panicked |-> FALSE]

\* Slip: the success return copied from the failure returns.
SuccessWithZeroDetails(res) ==
    [called |-> TRUE, details |-> ZeroRawEventDetails, err |-> Nil,
     decodeAttempted |-> TRUE, panicked |-> FALSE]

\* event.go:123: return &res, nil
Success(res) ==
    [called |-> TRUE, details |-> res, err |-> Nil,
     decodeAttempted |-> TRUE, panicked |-> FALSE]

ExtractUserDetails(ref) ==
    IF IsInvalidInput(ref) THEN Failure("InvalidInput", FALSE)
    ELSE IF ref = NilRef
    THEN \* *cloudTrailEvent at line 108 on a nil pointer
         [called |-> TRUE, details |-> ZeroRawEventDetails, err |-> "panic",
          decodeAttempted |-> FALSE, panicked |-> TRUE]
    ELSE LET u == Unmarshal(ref.text)
         IN  IF u.err # Nil THEN Failure("DecodeError", TRUE)
             ELSE LET v == Sscanf(u.res.EventVersion)
                  IN  IF v.err # Nil THEN Failure("VersionParseError", TRUE)
                      ELSE IF ~VersionSupported(v.major, v.minor)
                      THEN Failure("UnsupportedVersion", TRUE)
                      ELSE Success(u.res)

----------------------------------------------------------------------------
(* The payloads the extractor is run on *)

EventDoc(ver, uid, reg, eid, ec, extra) ==
    JObject([eventVersion |-> ver, userIdentity |-> uid, awsRegion |-> reg,
             eventID |-> eid, errorCode |-> ec, extra |-> extra])

VersionOnlyDoc(ver) == EventDoc(ver, JAbsent, JAbsent, JAbsent, JAbsent, JAbsent)

SampleVersions == {<<"1", ".", "8">>, <<"1", ".", "7">>, <<"a">>}

SampleStrings == {JAbsent, JString(<<"a">>), JNumber}

SampleIdentities ==
    {JAbsent, JNull, JNumber,
     JObject([accountId |-> JString(<<"1", "2">>), sessionContext |-> JAbsent]),
     JObject([accountId |-> JNumber, sessionContext |-> JAbsent]),
     JObject([accountId |-> JString(<<"1", "2">>),
              sessionContext |-> JObject([sessionIssuer |->
                  JObject([type |-> JString(<<"a">>),
                           userName |-> JString(<<"a", "a">>),
                           arn |-> JString(<<"a", ".", "a">>)])])]),
     JObject([accountId |-> JAbsent,
              sessionContext |-> JObject([sessionIssuer |->
                  JObject([type |-> JNumber, userName |-> JAbsent,
                           arn |-> JAbsent])])])}

ExtractInputs ==
    {NilRef, Ref(EmptyText), Ref(MalformedText),
     Ref(JSONText(JNull)), Ref(JSONText(JNumber)), Ref(JSONText(JString(<<"1", ".", "8">>)))}
    \cup {Ref(JSONText(VersionOnlyDoc(JString(v)))) : v \in VersionStrings}
    \cup {Ref(JSONText(VersionOnlyDoc(v))) : v \in {JAbsent, JNull, JNumber}}
    \cup {Ref(JSONText(EventDoc(JString(v), uid, reg, eid, ec, extra))) :
             v \in SampleVersions, uid \in SampleIdentities,
             reg \in SampleStrings, eid \in {JAbsent, JString(<<"a", "-", "1">>)},
             ec \in {JAbsent, JString(<< >>)}, extra \in {JAbsent, JNumber}}

InitExtract ==
    /\ mode = "extract"
    /\ writeOnly = FALSE
    /\ remote = << << >> >>
    /\ InitPagIdle
    /\ cloudTrailEvent \in ExtractInputs
    /\ extractOut = NotCalledOut
    /\ InitCadIdle
    /\ InitResizeIdle
    /\ InitNewIdle
    /\ InitDrainIdle
    /\ InitFetchIdle

CallExtractUserDetails ==
    /\ mode = "extract"
    /\ ~extractOut.called
    /\ extractOut' = ExtractUserDetails(cloudTrailEvent)
    /\ UNCHANGED <<mode, cloudTrailEvent>>
    /\ UNCHANGED <<pagVars, cadVars, cpVars, newVars, drainVars, fetchVars>>

NextExtract == CallExtractUserDetails

SpecExtract == InitExtract /\ [][NextExtract]_vars

----------------------------------------------------------------------------
(* Properties of ExtractUserDetails *)

\* The eventVersion string of a payload that is a JSON object whose
\* eventVersion is a JSON string.
HasVersionString(ref) ==
    /\ ref # NilRef
    /\ ref.text.kind = "json"
    /\ ref.text.value.type = "object"
    /\ ref.text.value.fields.eventVersion.type = "string"

VersionOf(ref) == ref.text.value.fields.eventVersion.val

AllDigits(str) == Len(str) >= 1 /\ \A i \in 1..Len(str) : str[i] \in Digits

RECURSIVE DecimalValue(_)
DecimalValue(str) ==
    IF str = << >> THEN 0
    ELSE 10 * DecimalValue(SubSeq(str, 1, Len(str) - 1)) + DigitVal(str[Len(str)])

\* str is <digits>.<digits>, split at position d.
IsMajorMinorAt(str, d) ==
    /\ d \in 1..Len(str)
    /\ str[d] = "."
    /\ AllDigits(SubSeq(str, 1, d - 1))
    /\ AllDigits(SubSeq(str, d + 1, Len(str)))

\* C9: for a payload that decodes and whose eventVersion is <major>.<minor>,
\* extraction succeeds exactly when major = 1 and minor >= 8 as numbers, and
\* every other such version fails with the unsupported-version error.
C9_AcceptanceWindow ==
    (extractOut.called /\ HasVersionString(cloudTrailEvent)
        /\ Unmarshal(cloudTrailEvent.text).err = Nil) =>
        \A d \in 1..Len(VersionOf(cloudTrailEvent)) :
            IsMajorMinorAt(VersionOf(cloudTrailEvent), d) =>
                LET major == DecimalValue(SubSeq(VersionOf(cloudTrailEvent), 1, d - 1))
                    minor == DecimalValue(SubSeq(VersionOf(cloudTrailEvent), d + 1,
                                                 Len(VersionOf(cloudTrailEvent))))
                IN  /\ (extractOut.err = Nil) <=> (major = 1 /\ minor >= 8)
                    /\ extractOut.err \in {Nil, "UnsupportedVersion"}

\* Version 1.20 is accepted: 20 >= 8 as a number.
C9_Witness ==
    /\ extractOut.called
    /\ HasVersionString(cloudTrailEvent)
    /\ VersionOf(cloudTrailEvent) = <<"1", ".", "2", "0">>
    /\ extractOut.err = Nil
    /\ extractOut.details.EventVersion = <<"1", ".", "2", "0">>

\* C10: a nil reference or a reference to the empty string gives the
\* invalid-input error, without a panic and without a decode.
C10_NilOrEmptyInput ==
    (extractOut.called /\ cloudTrailEvent \in {NilRef, Ref(EmptyText)}) =>
        /\ extractOut.err = "InvalidInput"
        /\ ~extractOut.panicked
        /\ ~extractOut.decodeAttempted
        /\ extractOut.details = ZeroRawEventDetails

C10_Witness ==
    /\ extractOut.called
    /\ cloudTrailEvent = Ref(EmptyText)
    /\ extractOut.err = "InvalidInput"

\* The JSON string under a key, empty when the key is absent.
FieldText(v) == IF v.type = "string" THEN v.val ELSE << >>

\* A value a string field of the payload may hold without a type error.
IsStringOrAbsent(v) == v.type \in {"string", "absent"}

IsObjectDoc(ref) ==
    /\ ref # NilRef
    /\ ref.text.kind = "json"
    /\ ref.text.value.type = "object"

DocFields(ref) == ref.text.value.fields

\* The session issuer of a payload, as JSON; absent at any level gives an
\* issuer whose three keys are absent.
IssuerOf(uid) ==
    IF uid.type = "object" /\ uid.fields.sessionContext.type = "object"
          /\ uid.fields.sessionContext.fields.sessionIssuer.type = "object"
    THEN uid.fields.sessionContext.fields.sessionIssuer.fields
    ELSE [type |-> JAbsent, userName |-> JAbsent, arn |-> JAbsent]

AccountOf(uid) == IF uid.type = "object" THEN uid.fields.accountId ELSE JAbsent

\* Every known key of the payload is absent or of the JSON type the
\* structure expects.
IsWellFormedDoc(ref) ==
    /\ IsObjectDoc(ref)
    /\ DocFields(ref).eventVersion.type = "string"
    /\ IsStringOrAbsent(DocFields(ref).awsRegion)
    /\ IsStringOrAbsent(DocFields(ref).eventID)
    /\ IsStringOrAbsent(DocFields(ref).errorCode)
    /\ DocFields(ref).userIdentity.type \in {"object", "absent"}
    /\ IsStringOrAbsent(AccountOf(DocFields(ref).userIdentity))
    /\ DocFields(ref).userIdentity.type = "object" =>
          /\ DocFields(ref).userIdentity.fields.sessionContext.type \in {"object", "absent"}
          /\ DocFields(ref).userIdentity.fields.sessionContext.type = "object" =>
                DocFields(ref).userIdentity.fields.sessionContext.fields.sessionIssuer.type
                    \in {"object", "absent"}
    /\ IsStringOrAbsent(IssuerOf(DocFields(ref).userIdentity).type)
    /\ IsStringOrAbsent(IssuerOf(DocFields(ref).userIdentity).userName)
    /\ IsStringOrAbsent(IssuerOf(DocFields(ref).userIdentity).arn)

\* str is exactly <digits>.<digits>.
IsMajorMinor(str) == \E d \in 1..Len(str) : IsMajorMinorAt(str, d)

\* C11: the version-parse error is returned exactly for the eventVersion
\* values that are not of the form <integer>.<integer>.
C11_ParseErrorIffNotMajorMinor ==
    (extractOut.called /\ IsWellFormedDoc(cloudTrailEvent)) =>
        ((extractOut.err = "VersionParseError")
            <=> ~IsMajorMinor(VersionOf(cloudTrailEvent)))

\* C12: on success every field of the returned structure is the JSON field
\* of the payload it is tagged with, and the error is nil.
C12_SuccessFields ==
    (extractOut.called /\ IsWellFormedDoc(cloudTrailEvent)
        /\ \E d \in 1..Len(VersionOf(cloudTrailEvent)) :
              /\ IsMajorMinorAt(VersionOf(cloudTrailEvent), d)
              /\ DecimalValue(SubSeq(VersionOf(cloudTrailEvent), 1, d - 1)) = 1
              /\ DecimalValue(SubSeq(VersionOf(cloudTrailEvent), d + 1,
                                     Len(VersionOf(cloudTrailEvent)))) >= 8) =>
        LET f == DocFields(cloudTrailEvent)
            r == extractOut.details
        IN  /\ extractOut.err = Nil
            /\ r.EventVersion = f.eventVersion.val
            /\ r.UserIdentity.AccountId = FieldText(AccountOf(f.userIdentity))
            /\ r.UserIdentity.SessionContext.SessionIssuer.Type
                  = FieldText(IssuerOf(f.userIdentity).type)
            /\ r.UserIdentity.SessionContext.SessionIssuer.UserName
                  = FieldText(IssuerOf(f.userIdentity).userName)
            /\ r.UserIdentity.SessionContext.SessionIssuer.Arn
                  = FieldText(IssuerOf(f.userIdentity).arn)
            /\ r.EventRegion = FieldText(f.awsRegion)
            /\ r.EventId = FieldText(f.eventID)
            /\ r.ErrorCode = FieldText(f.errorCode)

C12_Witness ==
    /\ extractOut.called
    /\ extractOut.err = Nil
    /\ extractOut.details.EventVersion = <<"1", ".", "8">>
    /\ extractOut.details.UserIdentity.AccountId = <<"1", "2">>
    /\ extractOut.details.UserIdentity.SessionContext.SessionIssuer.Arn = <<"a", ".", "a">>
    /\ extractOut.details.EventRegion = <<"a">>
    /\ extractOut.details.EventId = <<"a", "-", "1">>
    /\ extractOut.details.ErrorCode = << >>

\* C13: a structure with a non-empty field comes only with a nil error, a
\* payload that decoded and a version inside the window; every failure
\* returns the zero structure with one of the four errors.
C13_NoIdentityWithFailure ==
    extractOut.called =>
        /\ extractOut.err \in {Nil, "InvalidInput", "DecodeError",
                               "VersionParseError", "UnsupportedVersion"}
        /\ extractOut.err # Nil => extractOut.details = ZeroRawEventDetails
        /\ extractOut.details # ZeroRawEventDetails =>
              /\ extractOut.err = Nil
              /\ cloudTrailEvent # NilRef
              /\ Unmarshal(cloudTrailEvent.text).err = Nil
              /\ Sscanf(extractOut.details.EventVersion).err = Nil
              /\ Sscanf(extractOut.details.EventVersion).major = 1
              /\ Sscanf(extractOut.details.EventVersion).minor >= 8
        /\ cloudTrailEvent \in {NilRef, Ref(EmptyText)} => extractOut.err = "InvalidInput"
        /\ cloudTrailEvent = Ref(MalformedText) => extractOut.err = "DecodeError"

\* An unsupported version on a payload whose identity had been decoded.
C13_Witness ==
    /\ extractOut.called
    /\ extractOut.err = "UnsupportedVersion"
    /\ IsWellFormedDoc(cloudTrailEvent)
    /\ FieldText(AccountOf(DocFields(cloudTrailEvent).userIdentity)) = <<"1", "2">>
    /\ extractOut.details = ZeroRawEventDetails

\* C14: a payload with nothing but a supported eventVersion succeeds with
\* every other field empty, a key the structure does not name changes
\* nothing, and a payload without eventVersion gets the version-parse error.
C14_FieldOptionality ==
    (extractOut.called /\ IsObjectDoc(cloudTrailEvent)) =>
        LET f == DocFields(cloudTrailEvent)
            bare == /\ f.userIdentity = JAbsent /\ f.awsRegion = JAbsent
                    /\ f.eventID = JAbsent /\ f.errorCode = JAbsent
        IN  /\ (bare /\ f.eventVersion \in {JString(<<"1", ".", "8">>),
                                              JString(<<"1", ".", "2", "0">>)}) =>
                  /\ extractOut.err = Nil
                  /\ extractOut.details =
                        [ZeroRawEventDetails EXCEPT !.EventVersion = f.eventVersion.val]
            /\ (bare /\ f.eventVersion = JAbsent) =>
                  extractOut.err = "VersionParseError"
            /\ extractOut =
                  ExtractUserDetails(Ref(JSONText(JObject([f EXCEPT !.extra = JAbsent]))))

C14_Witness ==
    /\ extractOut.called
    /\ IsObjectDoc(cloudTrailEvent)
    /\ DocFields(cloudTrailEvent).extra = JNumber
    /\ DocFields(cloudTrailEvent).userIdentity = JAbsent
    /\ DocFields(cloudTrailEvent).awsRegion = JAbsent
    /\ DocFields(cloudTrailEvent).eventID = JAbsent
    /\ DocFields(cloudTrailEvent).errorCode = JAbsent
    /\ extractOut.err = Nil
    /\ extractOut.details.EventRegion = << >>

\* C15: non-empty input that is not JSON, or whose known field has another
\* JSON type than the structure expects, gets the decode error, whatever
\* its eventVersion is.
C15_DecodeErrorFirst ==
    (extractOut.called /\ cloudTrailEvent # NilRef) =>
        /\ cloudTrailEvent.text = MalformedText => extractOut.err = "DecodeError"
        /\ (cloudTrailEvent.text.kind = "json"
              /\ cloudTrailEvent.text.value.type \in {"number", "string"}) =>
                 extractOut.err = "DecodeError"
        /\ (IsObjectDoc(cloudTrailEvent)
              /\ \/ DocFields(cloudTrailEvent).eventVersion = JNumber
                 \/ DocFields(cloudTrailEvent).awsRegion = JNumber
                 \/ DocFields(cloudTrailEvent).userIdentity = JNumber
                 \/ AccountOf(DocFields(cloudTrailEvent).userIdentity) = JNumber
                 \/ IssuerOf(DocFields(cloudTrailEvent).userIdentity).type = JNumber) =>
                 extractOut.err = "DecodeError"

\* A type error in a payload whose version alone would be unsupported.
C15_Witness ==
    /\ extractOut.called
    /\ IsObjectDoc(cloudTrailEvent)
    /\ DocFields(cloudTrailEvent).eventVersion = JString(<<"1", ".", "7">>)
    /\ DocFields(cloudTrailEvent).awsRegion = JNumber
    /\ extractOut.err = "DecodeError"

----------------------------------------------------------------------------
(* cluster cad run, cmd/cluster/cad/run.go:18-249 *)

cadClusterIDProd == "2fbi9mjhqpobh20ot5d7e5eeq3a8gfhs"
cadClusterIDStage == "2f9ghpikkv446iidcv7b92em2hgk13q9"
cadNamespaceProd == "configuration-anomaly-detection-production"
cadNamespaceStage == "configuration-anomaly-detection-stage"

validInvestigations ==
    <<"chgm", "cmbb", "can-not-retrieve-updates", "ai", "cpd",
      "etcd-quota-low", "insightsoperatordown", "machine-health-check",
      "must-gather", "upgrade-config">>

validEnvironments == <<"stage", "production">>

\* slices.Contains
Contains(list, x) == \E i \in 1..Len(list) : list[i] = x

\* Slip: the check of the elevation reason left out.
validateWithoutReason(o) ==
    IF o.clusterID = "" THEN "cluster-id is required"
    ELSE IF ~Contains(validInvestigations, o.investigation) THEN "invalid investigation"
    ELSE IF ~Contains(validEnvironments, o.environment) THEN "invalid environment"
    ELSE Nil

\* run.go:183-201
validate(o) ==
    IF o.clusterID = "" THEN "cluster-id is required"
    ELSE IF ~Contains(validInvestigations, o.investigation) THEN "invalid investigation"
    ELSE IF ~Contains(validEnvironments, o.environment) THEN "invalid environment"
    ELSE IF o.elevationReason = "" THEN "elevation reason is required"
    ELSE Nil

\* Slip: production is the value looked for and stage the default.
getCADClusterConfigStageDefault(o) ==
    IF o.environment = "production"
    THEN [clusterID |-> cadClusterIDProd, namespace |-> cadNamespaceProd]
    ELSE [clusterID |-> cadClusterIDStage, namespace |-> cadNamespaceStage]

\* run.go:203-208
getCADClusterConfig(o) ==
    IF o.environment = "stage"
    THEN [clusterID |-> cadClusterIDStage, namespace |-> cadNamespaceStage]
    ELSE [clusterID |-> cadClusterIDProd, namespace |-> cadNamespaceProd]

\* schema.GroupVersion.String(): "group/version", or the bare version of
\* the core group.  A string is the sequence of its parts.
GroupVersionString(group, version) ==
    IF group = "" THEN <<version>> ELSE <<group, "/", version>>

\* schema.ParseGroupVersion as Unstructured.GroupVersionKind applies it.
ParseGroupVersion(str) ==
    IF Len(str) = 3 /\ str[2] = "/" THEN [Group |-> str[1], Version |-> str[3]]
    ELSE IF Len(str) = 1 THEN [Group |-> "", Version |-> str[1]]
    ELSE [Group |-> "", Version |-> ""]

\* Unstructured.GroupVersionKind()
GroupVersionKind(obj) ==
    [Group |-> ParseGroupVersion(obj.apiVersion).Group,
     Version |-> ParseGroupVersion(obj.apiVersion).Version,
     Kind |-> obj.kind]

\* Unstructured.SetGroupVersionKind
SetGroupVersionKind(obj, gvk) ==
    [obj EXCEPT !.apiVersion = GroupVersionString(gvk.Group, gvk.Version),
                !.kind = gvk.Kind]

\* A param of the PipelineRun; its value is a string or a boolean.
StringParam(n, v) == [name |-> n, type |-> "string", str |-> v, bool |-> FALSE]
BoolParam(n, v) == [name |-> n, type |-> "bool", str |-> "", bool |-> v]

\* Slip: the investigation put before the cluster ID.
pipelineRunParamsSwapped(o) ==
    <<StringParam("investigation", o.investigation),
      StringParam("cluster-id", o.clusterID),
      BoolParam("dry-run", o.isDryRun)>>

\* run.go:220-233
pipelineRunParams(o) ==
    <<StringParam("cluster-id", o.clusterID),
      StringParam("investigation", o.investigation),
      BoolParam("dry-run", o.isDryRun)>>

\* run.go:210-249
pipelineRunTemplate(o, ns) ==
    SetGroupVersionKind(
        [apiVersion |-> <<"tekton.dev/v1beta1">>,
         kind |-> "PipelineRun",
         metadata |-> [generateName |-> "cad-manual-", name |-> "", namespace |-> ns],
         spec |-> [params |-> pipelineRunParams(o),
                   pipelineRef |-> [name |-> "cad-manual-investigation-pipeline"],
                   serviceAccountName |-> "cad-sa",
                   timeout |-> "30m"]],
        [Group |-> "tekton.dev", Version |-> "v1beta1", Kind |-> "PipelineRun"])

\* Printed text is a sequence of parts: fixed texts and the values put in.
Text(t) == [part |-> "text", s |-> t]

\* Slip: one configured value is enough for a link.
logsLinkForEither(grafanaURL, awsAccountID, pipelineRunName) ==
    IF grafanaURL # "" \/ awsAccountID # ""
    THEN <<Text(grafanaURL), Text("/explore?..."), Text(awsAccountID),
           Text(pipelineRunName)>>
    ELSE << >>

\* run.go:156-159: the link, or the empty string.
logsLinkFor(grafanaURL, awsAccountID, pipelineRunName) ==
    IF grafanaURL # "" /\ awsAccountID # ""
    THEN <<Text(grafanaURL), Text("/explore?..."), Text(awsAccountID),
           Text(pipelineRunName)>>
    ELSE << >>

ConfigureHint == Text("To view TaskRun pod logs, configure 'cad_grafana_url' and 'cad_aws_account_id' using 'osdctl setup'")

DryRunConfigureHint == Text("Dry-run investigation scheduled. To view logs, configure 'cad_grafana_url' and 'cad_aws_account_id' using 'osdctl setup'")

\* run.go:161-178: the message printed after the PipelineRun was created.
runMessage(o, link) ==
    IF ~o.isDryRun
    THEN <<Text("Successfully scheduled manual investigation."),
           Text("osdctl cluster reports list -C"), Text(o.clusterID)>>
         \o (IF link # << >>
             THEN <<Text("If a report fails to show up, check the TaskRun pod logs here after a few minutes: ")>> \o link
             ELSE <<ConfigureHint>>)
    ELSE IF link # << >>
         THEN <<Text("Dry-run investigation scheduled. Check for logs here: ")>> \o link
         ELSE <<DryRunConfigureHint>>

\* Flag and config values the command is run with.
ClusterIDs == {"", "1a2b3c4d5e6f7g8h9i0j"}

Investigations ==
    {validInvestigations[i] : i \in 1..Len(validInvestigations)}
        \cup {"", "CHGM", "chgm2"}

Environments == {"stage", "production", "", "unknown", "Stage"}

Reasons == {"", "OHSS-12345"}

GrafanaURLs == {"", "https://grafana.example.com"}

AWSAccountIDs == {"", "123456789012"}

Namespaces == {cadNamespaceProd, cadNamespaceStage, "default"}

InitCad ==
    /\ mode = "cad"
    /\ writeOnly = FALSE
    /\ remote = << << >> >>
    /\ InitPagIdle
    /\ cloudTrailEvent = NilRef
    /\ extractOut = NotCalledOut
    /\ InitResizeIdle
    /\ InitNewIdle
    /\ InitDrainIdle
    /\ InitFetchIdle
    /\ opts \in [clusterID : ClusterIDs, investigation : Investigations,
                 elevationReason : Reasons, environment : Environments,
                 isDryRun : BOOLEAN]
    /\ viperConfig \in [grafanaURL : GrafanaURLs, awsAccountID : AWSAccountIDs]
    /\ cadPc = "start"
    /\ cadErr = Nil
    /\ cadClusterID = ""
    /\ cadNamespace = ""
    /\ ocmConns = << >>
    /\ k8sClients = << >>
    /\ pipelineRuns = << >>
    /\ uObject = NilObject
    /\ logsLink = << >>
    /\ printed = << >>

\* run.go:125-132: validate, then pick the CAD cluster.
CadValidate ==
    /\ mode = "cad"
    /\ cadPc = "start"
    /\ IF validate(opts) # Nil
       THEN /\ cadErr' = validate(opts)
            /\ cadPc' = "returned"
            /\ UNCHANGED <<cadClusterID, cadNamespace>>
       ELSE /\ cadClusterID' = getCADClusterConfig(opts).clusterID
            /\ cadNamespace' = getCADClusterConfig(opts).namespace
            /\ cadPc' = "connect"
            /\ UNCHANGED cadErr
    /\ UNCHANGED <<mode, opts, viperConfig, ocmConns, k8sClients, pipelineRuns,
                   uObject, logsLink, printed>>
    /\ UNCHANGED <<pagVars, extVars, cpVars, newVars, drainVars, fetchVars>>

\* run.go:135-139: the production OCM connection.
CadConnect ==
    /\ mode = "cad"
    /\ cadPc = "connect"
    /\ ocmConns' = Append(ocmConns, "production")
    /\ \E ok \in BOOLEAN :
          IF ok THEN cadPc' = "client" /\ UNCHANGED cadErr
          ELSE cadPc' = "returned"
               /\ cadErr' = "failed to create production OCM connection"
    /\ UNCHANGED <<mode, opts, viperConfig, cadClusterID, cadNamespace,
                   k8sClients, pipelineRuns, uObject, logsLink, printed>>
    /\ UNCHANGED <<pagVars, extVars, cpVars, newVars, drainVars, fetchVars>>

\* run.go:141-144: the elevated client on the CAD cluster.
CadNewClient ==
    /\ mode = "cad"
    /\ cadPc = "client"
    /\ k8sClients' = Append(k8sClients, cadClusterID)
    /\ \E ok \in BOOLEAN :
          IF ok THEN cadPc' = "create" /\ UNCHANGED cadErr
          ELSE cadPc' = "returned" /\ cadErr' = "failed to create k8s client"
    /\ UNCHANGED <<mode, opts, viperConfig, cadClusterID, cadNamespace,
                   ocmConns, pipelineRuns, uObject, logsLink, printed>>
    /\ UNCHANGED <<pagVars, extVars, cpVars, newVars, drainVars, fetchVars>>

\* run.go:146-154: build the object and create it; the API server names it.
CadCreate ==
    /\ mode = "cad"
    /\ cadPc = "create"
    /\ \E ok \in BOOLEAN :
          IF ok
          THEN /\ uObject' = [pipelineRunTemplate(opts, cadNamespace)
                                EXCEPT !.metadata.name = "cad-manual-xyz123"]
               /\ pipelineRuns' = Append(pipelineRuns,
                      [cluster |-> cadClusterID, object |-> uObject'])
               /\ cadPc' = "report"
               /\ UNCHANGED cadErr
          ELSE /\ uObject' = pipelineRunTemplate(opts, cadNamespace)
               /\ cadPc' = "returned"
               /\ cadErr' = "failed to schedule task"
               /\ UNCHANGED pipelineRuns
    /\ UNCHANGED <<mode, opts, viperConfig, cadClusterID, cadNamespace,
                   ocmConns, k8sClients, logsLink, printed>>
    /\ UNCHANGED <<pagVars, extVars, cpVars, newVars, drainVars, fetchVars>>

\* run.go:156-180: build the link, print the message, return nil.
CadReport ==
    /\ mode = "cad"
    /\ cadPc = "report"
    /\ logsLink' = logsLinkFor(viperConfig.grafanaURL, viperConfig.awsAccountID,
                               uObject.metadata.name)
    /\ printed' = runMessage(opts, logsLink')
    /\ cadPc' = "returned"
    /\ UNCHANGED <<mode, opts, viperConfig, cadErr, cadClusterID, cadNamespace,
                   ocmConns, k8sClients, pipelineRuns, uObject>>
    /\ UNCHANGED <<pagVars, extVars, cpVars, newVars, drainVars, fetchVars>>

\* getCADClusterConfig called on its own, on whatever the options hold.
CallGetCADClusterConfig ==
    /\ mode = "cad"
    /\ cadPc = "start"
    /\ cadClusterID' = getCADClusterConfig(opts).clusterID
    /\ cadNamespace' = getCADClusterConfig(opts).namespace
    /\ cadPc' = "config returned"
    /\ UNCHANGED <<mode, opts, viperConfig, cadErr, ocmConns, k8sClients,
                   pipelineRuns, uObject, logsLink, printed>>
    /\ UNCHANGED <<pagVars, extVars, cpVars, newVars, drainVars, fetchVars>>

\* pipelineRunTemplate called on its own, with any namespace.
CallPipelineRunTemplate ==
    /\ mode = "cad"
    /\ cadPc = "start"
    /\ \E ns \in Namespaces :
          /\ cadNamespace' = ns
          /\ uObject' = pipelineRunTemplate(opts, ns)
    /\ cadPc' = "template returned"
    /\ UNCHANGED <<mode, opts, viperConfig, cadErr, cadClusterID, ocmConns,
                   k8sClients, pipelineRuns, logsLink, printed>>
    /\ UNCHANGED <<pagVars, extVars, cpVars, newVars, drainVars, fetchVars>>

NextCad ==
    \/ CadValidate
    \/ CadConnect
    \/ CadNewClient
    \/ CadCreate
    \/ CadReport
    \/ CallGetCADClusterConfig
    \/ CallPipelineRunTemplate

SpecCad == InitCad /\ [][NextCad]_vars

----------------------------------------------------------------------------
(* Properties of cluster cad run *)

\* The ten investigations the command documents.
ListedInvestigations ==
    {"chgm", "cmbb", "can-not-retrieve-updates", "ai", "cpd", "etcd-quota-low",
     "insightsoperatordown", "machine-health-check", "must-gather",
     "upgrade-config"}

OptionsValid ==
    /\ opts.clusterID # ""
    /\ opts.investigation \in ListedInvestigations
    /\ opts.environment \in {"stage", "production"}
    /\ opts.elevationReason # ""

InRun == cadPc \in {"connect", "client", "create", "report", "returned"}

\* C16: with an empty cluster-id, an investigation outside the ten listed,
\* an environment other than stage or production, or an empty reason, run
\* returns an error and neither asks for an OCM connection nor creates a
\* PipelineRun; a PipelineRun is created at most once and only with valid
\* options.
C16_ValidationGuardsSideEffects ==
    /\ (~OptionsValid /\ InRun) =>
          /\ cadPc = "returned"
          /\ cadErr # Nil
    /\ ~OptionsValid =>
          /\ ocmConns = << >>
          /\ k8sClients = << >>
          /\ pipelineRuns = << >>
    /\ Len(pipelineRuns) <= 1
    /\ pipelineRuns # << >> => OptionsValid

\* Only the reason is missing.
C16_Witness ==
    /\ cadPc = "returned"
    /\ cadErr = "elevation reason is required"
    /\ opts.clusterID # ""
    /\ opts.investigation = "must-gather"
    /\ opts.environment = "stage"
    /\ opts.elevationReason = ""
    /\ pipelineRuns = << >>

\* C17: getCADClusterConfig gives the stage cluster and namespace exactly
\* for the environment "stage" and the production ones for anything else.
C17_CADClusterConfig ==
    cadPc = "config returned" =>
        /\ opts.environment = "stage" =>
              /\ cadClusterID = "2f9ghpikkv446iidcv7b92em2hgk13q9"
              /\ cadNamespace = "configuration-anomaly-detection-stage"
        /\ opts.environment # "stage" =>
              /\ cadClusterID = "2fbi9mjhqpobh20ot5d7e5eeq3a8gfhs"
              /\ cadNamespace = "configuration-anomaly-detection-production"

C17_Witness ==
    /\ cadPc = "config returned"
    /\ opts.environment = "unknown"
    /\ cadNamespace = "configuration-anomaly-detection-production"

\* C18: the object pipelineRunTemplate returns is a tekton.dev/v1beta1
\* PipelineRun in the namespace given, with the three params cluster-id,
\* investigation, dry-run in this order, holding the options' values.
C18_PipelineRunTemplate ==
    cadPc = "template returned" =>
        /\ GroupVersionKind(uObject) =
              [Group |-> "tekton.dev", Version |-> "v1beta1", Kind |-> "PipelineRun"]
        /\ uObject.metadata.namespace = cadNamespace
        /\ Len(uObject.spec.params) = 3
        /\ uObject.spec.params[1].name = "cluster-id"
        /\ uObject.spec.params[1].type = "string"
        /\ uObject.spec.params[1].str = opts.clusterID
        /\ uObject.spec.params[2].name = "investigation"
        /\ uObject.spec.params[2].type = "string"
        /\ uObject.spec.params[2].str = opts.investigation
        /\ uObject.spec.params[3].name = "dry-run"
        /\ uObject.spec.params[3].type = "bool"
        /\ uObject.spec.params[3].bool = opts.isDryRun

C18_Witness ==
    /\ cadPc = "template returned"
    /\ cadNamespace = "default"
    /\ opts.isDryRun
    /\ opts.investigation = "ai"
    /\ uObject.spec.params[3].bool

LinkPrinted ==
    \E i \in 1..Len(printed) : printed[i] = Text("/explore?...")

HintPrinted ==
    \E i \in 1..Len(printed) : printed[i] \in {ConfigureHint, DryRunConfigureHint}

\* C19: after the PipelineRun was scheduled, the logs link is built and
\* printed exactly when both config values are non-empty, and otherwise
\* the message asks to configure both, with and without dry-run.
C19_LogsLink ==
    (cadPc = "returned" /\ cadErr = Nil) =>
        /\ Len(pipelineRuns) = 1
        /\ LinkPrinted <=>
              (viperConfig.grafanaURL # "" /\ viperConfig.awsAccountID # "")
        /\ (logsLink # << >>) <=> LinkPrinted
        /\ HintPrinted <=> ~LinkPrinted
        /\ LinkPrinted =>
              /\ \E i \in 1..Len(printed) : printed[i] = Text(viperConfig.grafanaURL)
              /\ \E i \in 1..Len(printed) : printed[i] = Text(uObject.metadata.name)

\* Dry run with only the Grafana URL configured: the hint, no link.
C19_Witness ==
    /\ cadPc = "returned"
    /\ cadErr = Nil
    /\ opts.isDryRun
    /\ viperConfig.grafanaURL # ""
    /\ viperConfig.awsAccountID = ""
    /\ HintPrinted
    /\ ~LinkPrinted

----------------------------------------------------------------------------
(* cluster resize control-plane, controlPlane.run, run.go:862-966 *)

ControlPlaneMachineSetStateActive == "Active"

\* The providerSpec of the machine set's template: a JSON object with the
\* machine type and the rest of its fields, the JSON null, bytes that are no
\* JSON, or no value at all (the Value pointer is nil).
SpecObject(t, rest) == [kind |-> "object", machineType |-> t, rest |-> rest]
SpecNull == [kind |-> "null"]
SpecMalformed == [kind |-> "malformed"]
SpecNilValue == [kind |-> "nilValue"]

ProviderSpecs ==
    {SpecObject("m5.xlarge", "ami-1"), SpecNull, SpecMalformed, SpecNilValue}

Providers == {"aws", "gcp", "azure"}

States == {"Active", "Inactive", ""}

MachineTypes == {"m5.4xlarge", "n2-standard-16"}

\* Slip: the state of the machine set is not looked at.
CheckStateSkipped(cpms) == Nil

\* run.go:868-870
CheckState(cpms) ==
    IF cpms.state # ControlPlaneMachineSetStateActive
    THEN "control plane machine set is unexpectedly not Active"
    ELSE Nil

\* run.go:878-903: the new providerSpec, an error, or a panic.  For aws the
\* target of Unmarshal is a pointer to the pointer awsSpec, so the JSON null
\* sets awsSpec to nil and the assignment of InstanceType dereferences it;
\* for gcp null leaves the zero struct.  Reading Value.Raw through a nil
\* Value panics for both.
NewProviderSpec(provider, raw, newType) ==
    IF provider \notin {"aws", "gcp"}
    THEN [out |-> "error", err |-> "cloud provider not supported", rawBytes |-> NoSpec]
    ELSE IF raw.kind = "nilValue"
    THEN [out |-> "panic", err |-> Nil, rawBytes |-> NoSpec]
    ELSE IF raw.kind = "malformed"
    THEN [out |-> "error", err |-> "error unmarshalling providerSpec", rawBytes |-> NoSpec]
    ELSE IF raw.kind = "null"
    THEN IF provider = "aws"
         THEN [out |-> "panic", err |-> Nil, rawBytes |-> NoSpec]
         ELSE [out |-> "ok", err |-> Nil, rawBytes |-> SpecObject(newType, "")]
    ELSE [out |-> "ok", err |-> Nil, rawBytes |-> SpecObject(newType, raw.rest)]

InitResize ==
    /\ mode = "resize"
    /\ writeOnly = FALSE
    /\ remote = << << >> >>
    /\ InitPagIdle
    /\ cloudTrailEvent = NilRef
    /\ extractOut = NotCalledOut
    /\ InitCadIdle
    /\ InitNewIdle
    /\ InitDrainIdle
    /\ InitFetchIdle
    /\ cpEnv \in [provider : Providers, state : States, raw : ProviderSpecs]
    /\ newMachineType \in MachineTypes
    /\ cpPc = "start"
    /\ cpErr = Nil
    /\ rawBytes = NoSpec
    /\ cpTrace = << >>
    /\ cpmsRemote = cpEnv.raw
    /\ slPosted = << >>

\* run.go:863-866
CpGet ==
    /\ mode = "resize"
    /\ cpPc = "start"
    /\ \E ok \in BOOLEAN :
          IF ok
          THEN /\ cpTrace' = Append(cpTrace, "get")
               /\ cpPc' = "state"
               /\ UNCHANGED cpErr
          ELSE /\ cpErr' = "error retrieving control plane machine set"
               /\ cpPc' = "returned"
               /\ UNCHANGED cpTrace
    /\ UNCHANGED <<mode, cpEnv, newMachineType, rawBytes, cpmsRemote, slPosted>>
    /\ UNCHANGED <<pagVars, extVars, cadVars, newVars, drainVars, fetchVars>>

\* run.go:868-872
CpCheckState ==
    /\ mode = "resize"
    /\ cpPc = "state"
    /\ IF CheckState(cpEnv) # Nil
       THEN /\ cpErr' = CheckState(cpEnv)
            /\ cpPc' = "returned"
            /\ UNCHANGED cpTrace
       ELSE /\ cpTrace' = Append(cpTrace, "active")
            /\ cpPc' = "provider"
            /\ UNCHANGED cpErr
    /\ UNCHANGED <<mode, cpEnv, newMachineType, rawBytes, cpmsRemote, slPosted>>
    /\ UNCHANGED <<pagVars, extVars, cadVars, newVars, drainVars, fetchVars>>

\* run.go:878-905
CpProviderSpec ==
    /\ mode = "resize"
    /\ cpPc = "provider"
    /\ LET r == NewProviderSpec(cpEnv.provider, cpEnv.raw, newMachineType) IN
          \E marshalOk \in BOOLEAN :
             IF r.out = "ok" /\ ~marshalOk
             THEN /\ cpErr' = "error marshalling providerSpec"
                  /\ cpPc' = "returned"
                  /\ UNCHANGED <<rawBytes, cpTrace>>
             ELSE /\ rawBytes' = r.rawBytes
                  /\ cpErr' = r.err
                  /\ cpPc' = CASE r.out = "ok" -> "confirm"
                               [] r.out = "error" -> "returned"
                               [] OTHER -> "panicked"
                  /\ cpTrace' = IF r.out = "ok" THEN Append(cpTrace, "provider")
                                ELSE cpTrace
    /\ UNCHANGED <<mode, cpEnv, newMachineType, cpmsRemote, slPosted>>
    /\ UNCHANGED <<pagVars, extVars, cadVars, newVars, drainVars, fetchVars>>

\* run.go:906-908
CpConfirm ==
    /\ mode = "resize"
    /\ cpPc = "confirm"
    /\ \E answer \in BOOLEAN :
          IF ~answer
          THEN /\ cpErr' = "aborting control plane resize"
               /\ cpPc' = "returned"
               /\ UNCHANGED cpTrace
          ELSE /\ cpTrace' = Append(cpTrace, "confirmed")
               /\ cpPc' = "patch"
               /\ UNCHANGED cpErr
    /\ UNCHANGED <<mode, cpEnv, newMachineType, rawBytes, cpmsRemote, slPosted>>
    /\ UNCHANGED <<pagVars, extVars, cadVars, newVars, drainVars, fetchVars>>

\* run.go:911-916
CpPatch ==
    /\ mode = "resize"
    /\ cpPc = "patch"
    /\ \E ok \in BOOLEAN :
          IF ok
          THEN /\ cpmsRemote' = rawBytes
               /\ cpTrace' = cpTrace \o <<"patch", "patched">>
               /\ cpPc' = "service log"
               /\ UNCHANGED cpErr
          ELSE /\ cpErr' = "failed patching control plane machine set"
               /\ cpTrace' = Append(cpTrace, "patch")
               /\ cpPc' = "returned"
               /\ UNCHANGED cpmsRemote
    /\ UNCHANGED <<mode, cpEnv, newMachineType, rawBytes, slPosted>>
    /\ UNCHANGED <<pagVars, extVars, cadVars, newVars, drainVars, fetchVars>>

JiraIDs == {"", "OHSS-12345"}

\* run.go:918, 921-966: promptGenerateResizeSL.
CpPromptGenerateResizeSL ==
    /\ mode = "resize"
    /\ cpPc = "service log"
    /\ cpTrace' = Append(cpTrace, "service log prompt")
    /\ cpPc' = "returned"
    /\ \E answer \in BOOLEAN, jiraID \in JiraIDs, scanErr \in BOOLEAN, postOk \in BOOLEAN :
          IF ~answer
          THEN UNCHANGED <<cpErr, slPosted>>
          ELSE IF scanErr
          THEN /\ cpErr' = "failed to read justification text, send service log manually"
               /\ UNCHANGED slPosted
          ELSE /\ slPosted' = Append(slPosted,
                      [INSTANCE_TYPE |-> newMachineType, JIRA_ID |-> jiraID])
               /\ cpErr' = IF postOk THEN Nil ELSE "failed to send service log"
    /\ UNCHANGED <<mode, cpEnv, newMachineType, rawBytes, cpmsRemote>>
    /\ UNCHANGED <<pagVars, extVars, cadVars, newVars, drainVars, fetchVars>>

NextResize ==
    \/ CpGet
    \/ CpCheckState
    \/ CpProviderSpec
    \/ CpConfirm
    \/ CpPatch
    \/ CpPromptGenerateResizeSL

SpecResize == InitResize /\ [][NextResize]_vars

----------------------------------------------------------------------------
(* Properties of the control-plane resize *)

\* What a run does, in the only order it may do it.
ResizeOrder ==
    <<"get", "active", "provider", "confirmed", "patch", "patched",
      "service log prompt">>

IsPrefix(s, t) == Len(s) <= Len(t) /\ \A i \in 1..Len(s) : s[i] = t[i]

Did(e) == \E i \in 1..Len(cpTrace) : cpTrace[i] = e

PatchCalls == Cardinality({i \in 1..Len(cpTrace) : cpTrace[i] = "patch"})

\* C20: the machine set is patched at most once, only after it was read,
\* found Active, the provider found to be aws or gcp and the prompt
\* confirmed, in this order; the service-log prompt comes only after a
\* patch that succeeded; a declined confirmation returns an error and
\* patches nothing.
C20_ResizeOrder ==
    /\ IsPrefix(cpTrace, ResizeOrder)
    /\ PatchCalls <= 1
    /\ Did("patch") =>
          /\ cpEnv.state = "Active"
          /\ cpEnv.provider \in {"aws", "gcp"}
    /\ cpmsRemote # cpEnv.raw => Did("patched")
    /\ Did("patched") => cpmsRemote = rawBytes /\ cpmsRemote.machineType = newMachineType
    /\ cpPc = "service log" => Did("patched")
    /\ slPosted # << >> => Did("service log prompt")
    /\ cpErr = "aborting control plane resize" =>
          /\ cpPc = "returned"
          /\ ~Did("patch")
          /\ cpmsRemote = cpEnv.raw
          /\ slPosted = << >>

\* Declined after every check passed: an error, nothing patched.
C20_WitnessDeclined ==
    /\ cpErr = "aborting control plane resize"
    /\ cpTrace = <<"get", "active", "provider">>
    /\ cpmsRemote = cpEnv.raw

\* A complete run: patched, then the service log sent.
C20_Witness ==
    /\ cpPc = "returned"
    /\ cpTrace = ResizeOrder
    /\ cpmsRemote.machineType = newMachineType
    /\ slPosted # << >>

----------------------------------------------------------------------------
(* cluster resize control-plane, controlPlane.New, run.go:629-713 *)

HCPError == "this command should not be used for HCP clusters"

\* A cluster as OCM returns it.
Cluster(id, hs) == [isNil |-> FALSE, id |-> id, hypershift |-> hs]

\* cmv1.Cluster.Hypershift().Enabled(); the getters accept a nil receiver.
HypershiftEnabled(cluster) == ~cluster.isNil /\ cluster.hypershift

\* run.go:666: the cluster the struct holds is the one looked at.
IsHCP(o) == o.cluster # NilCluster /\ HypershiftEnabled(o.cluster)

\* What the command is called with: the flags of run.go:651-653.
ClusterKeys == {"1a2b3c4d5e6f7g8h9i0j", "my-cluster"}

InternalID == "1a2b3c4d5e6f7g8h9i0j"

NewReasons == {"OHSS-12345", "PD-1"}

\* run.go:630: the struct starts zero-valued but for the flags.
InitNew ==
    /\ mode = "new"
    /\ writeOnly = FALSE
    /\ remote = << << >> >>
    /\ InitPagIdle
    /\ cloudTrailEvent = NilRef
    /\ extractOut = NotCalledOut
    /\ InitCadIdle
    /\ InitResizeIdle
    /\ InitDrainIdle
    /\ InitFetchIdle
    /\ \E key \in ClusterKeys, t \in MachineTypes, r \in NewReasons :
          ops = [clusterID |-> key, newMachineType |-> t, reason |-> r,
                 cluster |-> NilCluster, client |-> NilClient,
                 clientAdmin |-> NilClient]
    /\ \E hs \in BOOLEAN : ocmTarget = Cluster(InternalID, hs)
    /\ newPc = "start"
    /\ newErr = Nil
    /\ newClients = << >>

\* run.go:662-673: the instance size, the HCP check, the cluster key.
NewValidate ==
    /\ mode = "new"
    /\ newPc = "start"
    /\ \E sizeOk \in BOOLEAN, keyOk \in BOOLEAN :
          IF ~sizeOk
          THEN newErr' = "invalid instance size" /\ newPc' = "returned"
          ELSE IF IsHCP(ops)
          THEN newErr' = HCPError /\ newPc' = "returned"
          ELSE IF ~keyOk
          THEN newErr' = "invalid cluster key" /\ newPc' = "returned"
          ELSE newPc' = "connect" /\ UNCHANGED newErr
    /\ UNCHANGED <<mode, ops, ocmTarget, newClients>>
    /\ UNCHANGED <<pagVars, extVars, cadVars, cpVars, drainVars, fetchVars>>

\* run.go:675-689: the OCM connection and the cluster behind the key.
NewGetCluster ==
    /\ mode = "new"
    /\ newPc = "connect"
    /\ \E connOk \in BOOLEAN, getOk \in BOOLEAN :
          IF ~connOk
          THEN /\ newErr' = "failed to create OCM connection"
               /\ newPc' = "returned"
               /\ UNCHANGED ops
          ELSE IF ~getOk
          THEN /\ newErr' = "failed to get cluster"
               /\ newPc' = "returned"
               /\ UNCHANGED ops
          ELSE /\ ops' = [ops EXCEPT !.cluster = ocmTarget,
                                     !.clusterID = ocmTarget.id]
               /\ newPc' = "client"
               /\ UNCHANGED newErr
    /\ UNCHANGED <<mode, ocmTarget, newClients>>
    /\ UNCHANGED <<pagVars, extVars, cadVars, cpVars, drainVars, fetchVars>>

\* run.go:691-700: the scheme and the plain client.
NewClient ==
    /\ mode = "new"
    /\ newPc = "client"
    /\ \E installOk \in BOOLEAN, ok \in BOOLEAN :
          IF ~installOk
          THEN /\ newErr' = "failed to install machinev1"
               /\ newPc' = "returned"
               /\ UNCHANGED newClients
          ELSE /\ newClients' = Append(newClients,
                      [kind |-> "plain", cluster |-> ops.clusterID])
               /\ IF ok THEN newPc' = "admin" /\ UNCHANGED newErr
                  ELSE newPc' = "returned" /\ newErr' = "failed to create client"
    /\ UNCHANGED <<mode, ops, ocmTarget>>
    /\ UNCHANGED <<pagVars, extVars, cadVars, cpVars, drainVars, fetchVars>>

\* run.go:702-712: the elevated client; both are stored on success.
NewAdminClient ==
    /\ mode = "new"
    /\ newPc = "admin"
    /\ newClients' = Append(newClients,
           [kind |-> "backplane-cluster-admin", cluster |-> ops.cluster.id])
    /\ \E ok \in BOOLEAN :
          IF ok
          THEN /\ ops' = [ops EXCEPT
                    !.client = [isNil |-> FALSE, kind |-> "plain"],
                    !.clientAdmin = [isNil |-> FALSE, kind |-> "backplane-cluster-admin"]]
               /\ newPc' = "returned"
               /\ UNCHANGED newErr
          ELSE /\ newErr' = "failed to create elevated client"
               /\ newPc' = "returned"
               /\ UNCHANGED ops
    /\ UNCHANGED <<mode, ocmTarget>>
    /\ UNCHANGED <<pagVars, extVars, cadVars, cpVars, drainVars, fetchVars>>

NextNew ==
    \/ NewValidate
    \/ NewGetCluster
    \/ NewClient
    \/ NewAdminClient

SpecNew == InitNew /\ [][NextNew]_vars

----------------------------------------------------------------------------
(* Properties of controlPlane.New *)

\* C21: for a target cluster with Hypershift enabled, New creates no
\* Kubernetes client, plain or elevated, and once it has the cluster it
\* returns the error "this command should not be used for HCP clusters".
C21_HCPRejected ==
    (mode = "new" /\ ocmTarget.hypershift) =>
        /\ newClients = << >>
        /\ ops.client = NilClient
        /\ ops.clientAdmin = NilClient
        /\ (newPc = "returned" /\ ops.cluster # NilCluster) =>
              newErr = "this command should not be used for HCP clusters"

----------------------------------------------------------------------------
(* Operator dialogs, withRetrySkipCancelOption and drainNode,
   run.go:717-846 *)

\* Longest history of drains, invocations and reads that is followed.
MaxEvents == 5

\* A line is the sequence of its characters.
LowerLetters ==
    <<"a", "b", "c", "d", "e", "f", "g", "h", "i", "j", "k", "l", "m",
      "n", "o", "p", "q", "r", "s", "t", "u", "v", "w", "x", "y", "z">>

UpperLetters ==
    <<"A", "B", "C", "D", "E", "F", "G", "H", "I", "J", "K", "L", "M",
      "N", "O", "P", "Q", "R", "S", "T", "U", "V", "W", "X", "Y", "Z">>

UpperChar(c) ==
    IF \E i \in 1..26 : LowerLetters[i] = c
    THEN UpperLetters[CHOOSE i \in 1..26 : LowerLetters[i] = c]
    ELSE c

\* strings.ToUpper
ToUpper(line) == [i \in 1..Len(line) |-> UpperChar(line[i])]

RETRY == <<"R", "E", "T", "R", "Y">>
SKIP == <<"S", "K", "I", "P">>
FORCE == <<"F", "O", "R", "C", "E">>
CANCEL == <<"C", "A", "N", "C", "E", "L">>

\* Slip: the three-way dialog takes FORCE as well.
retrySkipCancelSwitchWithForce(response) ==
    IF response = RETRY THEN Retry
    ELSE IF response = SKIP THEN Skip
    ELSE IF response = FORCE THEN Force
    ELSE IF response = CANCEL THEN Cancel
    ELSE Undefined

\* run.go:739-749: the response a line stands for; Undefined stands for
\* the default case, which asks again.
retrySkipCancelSwitch(response) ==
    IF response = RETRY THEN Retry
    ELSE IF response = SKIP THEN Skip
    ELSE IF response = CANCEL THEN Cancel
    ELSE Undefined

\* run.go:788-800
retrySkipForceCancelSwitch(response) ==
    IF response = RETRY THEN Retry
    ELSE IF response = SKIP THEN Skip
    ELSE IF response = FORCE THEN Force
    ELSE IF response = CANCEL THEN Cancel
    ELSE Undefined

\* What reader.ReadLine() gives: a line, or an error.
Line(l) == [ok |-> TRUE, line |-> l]
ReadError == [ok |-> FALSE, line |-> << >>]

ReadErrorText == "reader.ReadLine() resulted in an error"

\* One round of a dialog, run.go:730-749 and 779-800: it returns, or it
\* calls itself to ask again.
retrySkipCancelDialog(read) ==
    IF ~read.ok
    THEN [again |-> FALSE, resp |-> Undefined, err |-> ReadErrorText]
    ELSE IF retrySkipCancelSwitch(ToUpper(read.line)) = Undefined
    THEN [again |-> TRUE, resp |-> Undefined, err |-> Nil]
    ELSE [again |-> FALSE, resp |-> retrySkipCancelSwitch(ToUpper(read.line)),
          err |-> Nil]

retrySkipForceCancelDialog(read) ==
    IF ~read.ok
    THEN [again |-> FALSE, resp |-> Undefined, err |-> ReadErrorText]
    ELSE IF retrySkipForceCancelSwitch(ToUpper(read.line)) = Undefined
    THEN [again |-> TRUE, resp |-> Undefined, err |-> Nil]
    ELSE [again |-> FALSE, resp |-> retrySkipForceCancelSwitch(ToUpper(read.line)),
          err |-> Nil]

\* Slip: Skip ends with an error, as Cancel does.
withRetrySwitchSkipFails(dialogResponse) ==
    IF dialogResponse = Retry THEN [next |-> "fn", err |-> Nil]
    ELSE IF dialogResponse = Skip THEN [next |-> "returned", err |-> "exiting"]
    ELSE IF dialogResponse = Cancel THEN [next |-> "returned", err |-> "exiting"]
    ELSE [next |-> "returned",
          err |-> "unhandled enumerator in withRetrySkipCancelOption"]

\* run.go:763-773: what withRetrySkipCancelOption does with the answer.
withRetrySwitch(dialogResponse) ==
    IF dialogResponse = Retry THEN [next |-> "fn", err |-> Nil]
    ELSE IF dialogResponse = Skip THEN [next |-> "returned", err |-> Nil]
    ELSE IF dialogResponse = Cancel THEN [next |-> "returned", err |-> "exiting"]
    ELSE [next |-> "returned",
          err |-> "unhandled enumerator in withRetrySkipCancelOption"]

\* Slip: Skip goes on to the forced drain.
drainNodeSwitchSkipForces(dialogResponse) ==
    IF dialogResponse = Retry THEN [next |-> "drain", err |-> Nil]
    ELSE IF dialogResponse = Skip THEN [next |-> "fn", err |-> Nil]
    ELSE IF dialogResponse = Force THEN [next |-> "fn", err |-> Nil]
    ELSE IF dialogResponse = Cancel THEN [next |-> "returned", err |-> "exiting"]
    ELSE [next |-> "returned", err |-> Nil]

\* run.go:831-845: what drainNode does with the answer.
drainNodeSwitch(dialogResponse) ==
    IF dialogResponse = Retry THEN [next |-> "drain", err |-> Nil]
    ELSE IF dialogResponse = Skip THEN [next |-> "returned", err |-> Nil]
    ELSE IF dialogResponse = Force THEN [next |-> "fn", err |-> Nil]
    ELSE IF dialogResponse = Cancel THEN [next |-> "returned", err |-> "exiting"]
    ELSE [next |-> "returned", err |-> Nil]

\* What the history holds: a drain or an invocation of fn with its result,
\* or a read of dialog dlg (3 or 4 choices) with what was read.
Ran(e, ok) == [e |-> e, ok |-> ok, dlg |-> 0, line |-> << >>]
ReadIn(dlg, read) == [e |-> "read", ok |-> read.ok, dlg |-> dlg, line |-> read.line]

\* What an operator may type, and a closed or broken input.
Lines ==
    {<<"r", "e", "t", "r", "y">>, <<"R", "e", "t", "r", "y">>,
     <<"s", "k", "i", "p">>, <<"S", "K", "I", "P">>,
     <<"f", "o", "r", "c", "e">>, <<"F", "o", "R", "c", "E">>,
     <<"c", "a", "n", "c", "e", "l">>, <<"C", "A", "N", "C", "E", "L">>,
     << >>, <<"r", "e", "t", "r", "y", " ">>, <<"y", "e", "s">>, <<"r">>}

Reads == {Line(l) : l \in Lines} \cup {ReadError}

Entries ==
    {"retrySkipCancelDialog", "retrySkipForceCancelDialog",
     "withRetrySkipCancelOption", "drainNode"}

InitDrain ==
    /\ mode = "drain"
    /\ writeOnly = FALSE
    /\ remote = << << >> >>
    /\ InitPagIdle
    /\ cloudTrailEvent = NilRef
    /\ extractOut = NotCalledOut
    /\ InitCadIdle
    /\ InitResizeIdle
    /\ InitNewIdle
    /\ InitFetchIdle
    /\ dEntry \in Entries
    /\ dPc = CASE dEntry = "retrySkipCancelDialog" -> "dialog3"
               [] dEntry = "retrySkipForceCancelDialog" -> "dialog4"
               [] dEntry = "withRetrySkipCancelOption" -> "fn"
               [] OTHER -> "drain"
    /\ dErr = Nil
    /\ dResp = Undefined
    /\ dTrace = << >>
    /\ lastLine = << >>
    /\ prompts = 0
    /\ drained = FALSE

\* retrySkipCancelDialog called on its own, run.go:727-750.
CallRetrySkipCancelDialog ==
    /\ mode = "drain"
    /\ dEntry = "retrySkipCancelDialog"
    /\ dPc = "dialog3"
    /\ Len(dTrace) < MaxEvents
    /\ prompts' = prompts + 1
    /\ \E read \in Reads :
          /\ dTrace' = Append(dTrace, ReadIn(3, read))
          /\ lastLine' = read.line
          /\ dResp' = retrySkipCancelDialog(read).resp
          /\ dErr' = retrySkipCancelDialog(read).err
          /\ dPc' = IF retrySkipCancelDialog(read).again THEN "dialog3"
                    ELSE "returned"
    /\ UNCHANGED <<mode, dEntry, drained>>
    /\ UNCHANGED <<pagVars, extVars, cadVars, cpVars, newVars, fetchVars>>

\* retrySkipForceCancelDialog called on its own, run.go:776-801.
CallRetrySkipForceCancelDialog ==
    /\ mode = "drain"
    /\ dEntry = "retrySkipForceCancelDialog"
    /\ dPc = "dialog4"
    /\ Len(dTrace) < MaxEvents
    /\ prompts' = prompts + 1
    /\ \E read \in Reads :
          /\ dTrace' = Append(dTrace, ReadIn(4, read))
          /\ lastLine' = read.line
          /\ dResp' = retrySkipForceCancelDialog(read).resp
          /\ dErr' = retrySkipForceCancelDialog(read).err
          /\ dPc' = IF retrySkipForceCancelDialog(read).again THEN "dialog4"
                    ELSE "returned"
    /\ UNCHANGED <<mode, dEntry, drained>>
    /\ UNCHANGED <<pagVars, extVars, cadVars, cpVars, newVars, fetchVars>>

\* run.go:753-757: fn is invoked; under drainNode fn is forceDrainNode,
\* run.go:803-813 and 837.
WithRetryInvoke ==
    /\ mode = "drain"
    /\ dEntry \in {"withRetrySkipCancelOption", "drainNode"}
    /\ dPc = "fn"
    /\ Len(dTrace) < MaxEvents
    /\ \E ok \in BOOLEAN :
          /\ dTrace' = Append(dTrace, Ran("fn", ok))
          /\ IF ok
             THEN /\ dPc' = "returned"
                  /\ dErr' = Nil
                  /\ drained' = IF dEntry = "drainNode" THEN TRUE ELSE drained
             ELSE /\ dPc' = "dialog3"
                  /\ dErr' = IF dEntry = "drainNode" THEN "failed to force drain"
                             ELSE "fn failed"
                  /\ UNCHANGED drained
    /\ UNCHANGED <<mode, dEntry, dResp, lastLine, prompts>>
    /\ UNCHANGED <<pagVars, extVars, cadVars, cpVars, newVars, fetchVars>>

\* run.go:758-773: the dialog after fn failed, and the switch on its answer.
WithRetryDialog ==
    /\ mode = "drain"
    /\ dEntry \in {"withRetrySkipCancelOption", "drainNode"}
    /\ dPc = "dialog3"
    /\ Len(dTrace) < MaxEvents
    /\ prompts' = prompts + 1
    /\ \E read \in Reads :
          LET d == retrySkipCancelDialog(read) IN
          /\ dTrace' = Append(dTrace, ReadIn(3, read))
          /\ lastLine' = read.line
          /\ dResp' = d.resp
          /\ IF d.again THEN dPc' = "dialog3" /\ UNCHANGED dErr
             ELSE IF d.err # Nil THEN dPc' = "returned" /\ dErr' = d.err
             ELSE /\ dPc' = withRetrySwitch(d.resp).next
                  /\ dErr' = withRetrySwitch(d.resp).err
    /\ UNCHANGED <<mode, dEntry, drained>>
    /\ UNCHANGED <<pagVars, extVars, cadVars, cpVars, newVars, fetchVars>>

\* run.go:816-824: the normal drain.
DrainNodeDrain ==
    /\ mode = "drain"
    /\ dEntry = "drainNode"
    /\ dPc = "drain"
    /\ Len(dTrace) < MaxEvents
    /\ \E ok \in BOOLEAN :
          /\ dTrace' = Append(dTrace, Ran("drain", ok))
          /\ IF ok
             THEN dPc' = "returned" /\ dErr' = Nil /\ drained' = TRUE
             ELSE dPc' = "dialog4" /\ dErr' = "failed to drain node"
                  /\ UNCHANGED drained
    /\ UNCHANGED <<mode, dEntry, dResp, lastLine, prompts>>
    /\ UNCHANGED <<pagVars, extVars, cadVars, cpVars, newVars, fetchVars>>

\* run.go:826-845: the dialog after the drain failed, and the switch.
DrainNodeDialog ==
    /\ mode = "drain"
    /\ dEntry = "drainNode"
    /\ dPc = "dialog4"
    /\ Len(dTrace) < MaxEvents
    /\ prompts' = prompts + 1
    /\ \E read \in Reads :
          LET d == retrySkipForceCancelDialog(read) IN
          /\ dTrace' = Append(dTrace, ReadIn(4, read))
          /\ lastLine' = read.line
          /\ dResp' = d.resp
          /\ IF d.again THEN dPc' = "dialog4" /\ UNCHANGED dErr
             ELSE IF d.err # Nil THEN dPc' = "returned" /\ dErr' = d.err
             ELSE /\ dPc' = drainNodeSwitch(d.resp).next
                  /\ dErr' = drainNodeSwitch(d.resp).err
    /\ UNCHANGED <<mode, dEntry, drained>>
    /\ UNCHANGED <<pagVars, extVars, cadVars, cpVars, newVars, fetchVars>>

NextDrain ==
    \/ CallRetrySkipCancelDialog
    \/ CallRetrySkipForceCancelDialog
    \/ WithRetryInvoke
    \/ WithRetryDialog
    \/ DrainNodeDrain
    \/ DrainNodeDialog

SpecDrain == InitDrain /\ [][NextDrain]_vars

----------------------------------------------------------------------------
(* Properties of the dialogs, withRetrySkipCancelOption and drainNode *)

LowerChar(c) ==
    IF \E i \in 1..26 : UpperLetters[i] = c
    THEN LowerLetters[CHOOSE i \in 1..26 : UpperLetters[i] = c]
    ELSE c

\* The whole line is the word, letter case aside.
Says(line, word) ==
    /\ Len(line) = Len(word)
    /\ \A i \in 1..Len(line) : LowerChar(line[i]) = word[i]

retryWord == <<"r", "e", "t", "r", "y">>
skipWord == <<"s", "k", "i", "p">>
forceWord == <<"f", "o", "r", "c", "e">>
cancelWord == <<"c", "a", "n", "c", "e", "l">>

\* The words a dialog with dlg choices takes.
WordsOf(dlg) ==
    IF dlg = 4 THEN {retryWord, skipWord, forceWord, cancelWord}
    ELSE {retryWord, skipWord, cancelWord}

\* Event i of the history is an answer of this word to a dialog.
Answered(i, word) ==
    /\ dTrace[i].e = "read"
    /\ dTrace[i].ok
    /\ Says(dTrace[i].line, word)

\* Event i is a read that gave no answer the dialog takes.
Unrecognised(i) ==
    /\ dTrace[i].e = "read"
    /\ dTrace[i].ok
    /\ \A w \in WordsOf(dTrace[i].dlg) : ~Says(dTrace[i].line, w)

ReadFailed(i) == dTrace[i].e = "read" /\ ~dTrace[i].ok

Invoked(i) == dTrace[i].e = "fn"

Count(P(_)) == Cardinality({i \in 1..Len(dTrace) : P(i)})

AnsweredRetry(i) == Answered(i, retryWord)

\* C22: withRetrySkipCancelOption invokes fn once and once more for each
\* Retry answer, and not again after Skip or Cancel; it returns nil exactly
\* when the last invocation succeeded or the answer was Skip, and an error
\* after Cancel or a failed read.
C22_WithRetrySkipCancel ==
    dEntry = "withRetrySkipCancelOption" =>
        /\ \A i \in 1..Len(dTrace) :
              (Answered(i, skipWord) \/ Answered(i, cancelWord) \/ ReadFailed(i)) =>
                  i = Len(dTrace) /\ dPc = "returned"
        /\ \A i \in 1..Len(dTrace) :
              (Invoked(i) /\ dTrace[i].ok) => i = Len(dTrace) /\ dPc = "returned"
        /\ Count(Invoked) <= 1 + Count(AnsweredRetry)
        /\ dPc # "fn" => Count(Invoked) = 1 + Count(AnsweredRetry)
        /\ dPc = "returned" =>
              /\ dTrace # << >>
              /\ (dErr = Nil) <=>
                    \/ (Invoked(Len(dTrace)) /\ dTrace[Len(dTrace)].ok)
                    \/ Answered(Len(dTrace), skipWord)
              /\ (Answered(Len(dTrace), cancelWord) \/ ReadFailed(Len(dTrace)))
                    => dErr # Nil

\* fn fails twice, Retry in between, then Skip: nil although fn never
\* succeeded.
C22_Witness ==
    /\ dEntry = "withRetrySkipCancelOption"
    /\ dPc = "returned"
    /\ dErr = Nil
    /\ Len(dTrace) = 4
    /\ Invoked(1) /\ ~dTrace[1].ok
    /\ Answered(2, retryWord)
    /\ Invoked(3) /\ ~dTrace[3].ok
    /\ Answered(4, skipWord)

DrainFailed(i) == dTrace[i].e = "drain" /\ ~dTrace[i].ok

\* C23: under drainNode the forced drain runs only after a normal drain
\* failed and the four-way dialog was answered Force; Retry runs the normal
\* drain again, Cancel returns an error, Skip returns nil with the node not
\* drained.
C23_DrainEscalation ==
    dEntry = "drainNode" =>
        /\ \A i \in 1..Len(dTrace) :
              Invoked(i) =>
                 \E j \in 1..(i - 1) :
                    /\ dTrace[j].dlg = 4
                    /\ Answered(j, forceWord)
                    /\ \E k \in 1..(j - 1) :
                          /\ DrainFailed(k)
                          /\ \A m \in (k + 1)..(j - 1) : Unrecognised(m)
        /\ \A i \in 1..Len(dTrace) :
              dTrace[i].dlg = 4 =>
                 /\ \E j \in 1..(i - 1) : DrainFailed(j)
                 /\ Answered(i, retryWord) =>
                       IF i < Len(dTrace) THEN dTrace[i + 1].e = "drain"
                       ELSE dPc = "drain"
                 /\ Answered(i, cancelWord) =>
                       i = Len(dTrace) /\ dPc = "returned" /\ dErr # Nil
                 /\ Answered(i, skipWord) =>
                       /\ i = Len(dTrace)
                       /\ dPc = "returned"
                       /\ dErr = Nil
                       /\ ~drained
        /\ drained <=>
              \E i \in 1..Len(dTrace) :
                 dTrace[i].e \in {"drain", "fn"} /\ dTrace[i].ok

\* Drain fails, Retry, drain fails again, Force, the forced drain works.
C23_Witness ==
    /\ dEntry = "drainNode"
    /\ dPc = "returned"
    /\ dErr = Nil
    /\ drained
    /\ Len(dTrace) = 5
    /\ DrainFailed(1)
    /\ Answered(2, retryWord)
    /\ DrainFailed(3)
    /\ Answered(4, forceWord)
    /\ Invoked(5)

\* The response that stands for a word.
ResponseOf(word) ==
    CASE word = retryWord -> 1
      [] word = skipWord -> 2
      [] word = forceWord -> 3
      [] word = cancelWord -> 4

DialogEntry == dEntry \in {"retrySkipCancelDialog", "retrySkipForceCancelDialog"}

Choices == IF dEntry = "retrySkipForceCancelDialog" THEN 4 ELSE 3

\* C24: a dialog returns without error only Retry, Skip or Cancel (and
\* Force, for the four-way one), the one whose word is the whole line read,
\* letter case aside; any other line makes it ask again; a failed read
\* returns Undefined and an error; it returns at the first answer it takes
\* or failed read.
C24_Dialogs ==
    DialogEntry =>
        /\ prompts = Len(dTrace)
        /\ \A i \in 1..Len(dTrace) :
              /\ dTrace[i].dlg = Choices
              /\ i < Len(dTrace) => Unrecognised(i)
        /\ (dTrace # << >> /\ Unrecognised(Len(dTrace))) => dPc # "returned"
        /\ (dTrace # << >> /\ ~Unrecognised(Len(dTrace))) => dPc = "returned"
        /\ dPc = "returned" =>
              /\ ReadFailed(Len(dTrace)) => (dResp = 0 /\ dErr # Nil)
              /\ ~ReadFailed(Len(dTrace)) => dErr = Nil
              /\ dErr = Nil =>
                    \E w \in WordsOf(Choices) :
                       /\ Says(lastLine, w)
                       /\ dResp = ResponseOf(w)
              /\ (dErr = Nil /\ Choices = 3) => dResp \in {1, 2, 4}

\* Two lines that are no answer, then "FoRcE" to the four-way dialog.
C24_Witness ==
    /\ dEntry = "retrySkipForceCancelDialog"
    /\ dPc = "returned"
    /\ Len(dTrace) = 3
    /\ prompts = 3
    /\ dTrace[1].line = <<"r", "e", "t", "r", "y", " ">>
    /\ lastLine = <<"F", "o", "R", "c", "E">>
    /\ dResp = 3
    /\ dErr = Nil

----------------------------------------------------------------------------
(* FetchClusterDetails, cmd/dynatrace/cluster.go:10-90 *)

ErrUnsupportedCluster == "not an HCP or MC Cluster"

\* A cluster of OCM as FetchClusterDetails reads it; isMC tells whether it
\* is a management cluster.
OCMCluster(id, name, externalID, hs, mc) ==
    [isNil |-> FALSE, id |-> id, name |-> name, externalID |-> externalID,
     hypershift |-> hs, isMC |-> mc]

FetchClusters ==
    {OCMCluster("2a3b4c", "my-hcp", "ext-1", TRUE, FALSE),
     OCMCluster("5d6e7f", "hs-mc-1", "ext-2", FALSE, TRUE),
     OCMCluster("8g9h0i", "classic", "ext-3", FALSE, FALSE)}

\* The management and service cluster of an HCP, its namespace on the
\* management cluster and the Dynatrace URL of a management cluster.
mgmtClusterOf(cluster) == [id |-> "5d6e7f", name |-> "hs-mc-1"]
svcClusterOf(cluster) == [id |-> "1j2k3l", name |-> "hs-sc-1"]
HCPNamespaceOf(cluster) == <<"ocm-production-", cluster.id, "-", cluster.name>>
DynatraceURLOf(id) == "https://tenant.dynatrace.example.com"

\* strings.SplitAfter(s, sep)[0]: s up to and including the first sep, or
\* all of s when sep does not occur.
SplitAfterFirst(str, sep) ==
    IF \E i \in 1..Len(str) : str[i] = sep
    THEN SubSeq(str, 1, CHOOSE i \in 1..Len(str) :
                           /\ str[i] = sep
                           /\ \A j \in 1..(i - 1) : str[j] # sep)
    ELSE str

\* Whether each call FetchClusterDetails makes succeeds; isMCOnErr is the
\* boolean IsManagementCluster returns next to an error.
FetchEnvs ==
    [keyOk : BOOLEAN, connOk : BOOLEAN, getOk : BOOLEAN, mcErr : BOOLEAN,
     isMCOnErr : BOOLEAN, urlOk : BOOLEAN, mgmtOk : BOOLEAN, svcOk : BOOLEAN,
     nsOk : BOOLEAN]

\* ocmutils.IsManagementCluster(cluster.ID())
IsManagementCluster(cluster, env) ==
    IF env.mcErr THEN [isMC |-> env.isMCOnErr, err |-> "management cluster check failed"]
    ELSE [isMC |-> cluster.isMC, err |-> Nil]

\* Slip: an error of the check is not looked at.
IsUnsupportedIgnoringErr(mc) == ~mc.isMC

\* cluster.go:44
IsUnsupported(mc) == ~mc.isMC \/ mc.err # Nil

Returns(hcp, e) == [returned |-> TRUE, hcpCluster |-> hcp, err |-> e]

\* cluster.go:26-90
FetchClusterDetails(cluster, env) ==
    IF ~env.keyOk THEN Returns(ZeroHCPCluster, "invalid cluster key")
    ELSE IF ~env.connOk THEN Returns(ZeroHCPCluster, "failed to create OCM connection")
    ELSE IF ~env.getOk THEN Returns(ZeroHCPCluster, "failed to get cluster")
    ELSE IF ~cluster.hypershift
    THEN IF IsUnsupported(IsManagementCluster(cluster, env))
         THEN Returns(ZeroHCPCluster, ErrUnsupportedCluster)
         ELSE IF ~env.urlOk
         THEN Returns(ZeroHCPCluster, "the Dynatrace Environment URL could not be determined")
         ELSE Returns([ZeroHCPCluster EXCEPT
                          !.managementClusterID = cluster.id,
                          !.managementClusterName = cluster.name,
                          !.DynatraceURL = DynatraceURLOf(cluster.id)], Nil)
    ELSE IF ~env.mgmtOk
    THEN Returns(ZeroHCPCluster, "error retreiving Management Cluster for given HCP")
    ELSE IF ~env.svcOk
    THEN Returns(ZeroHCPCluster, "error retreiving Service Cluster for given HCP")
    ELSE IF ~env.nsOk
    THEN Returns(ZeroHCPCluster, "error retreiving HCP Namespace for given cluster")
    ELSE IF ~env.urlOk
    THEN Returns(ZeroHCPCluster, "the Dynatrace Environemnt URL could not be determined")
    ELSE Returns(
            [name |-> cluster.name,
             internalID |-> cluster.id,
             externalID |-> cluster.externalID,
             managementClusterID |-> mgmtClusterOf(cluster).id,
             klusterletNS |-> <<"klusterlet-", cluster.id>>,
             hostedNS |-> SplitAfterFirst(HCPNamespaceOf(cluster), cluster.id),
             hcpNamespace |-> HCPNamespaceOf(cluster),
             managementClusterName |-> mgmtClusterOf(cluster).name,
             DynatraceURL |-> DynatraceURLOf(mgmtClusterOf(cluster).id),
             serviceClusterID |-> svcClusterOf(cluster).id,
             serviceClusterName |-> svcClusterOf(cluster).name], Nil)

InitFetch ==
    /\ mode = "fetch"
    /\ writeOnly = FALSE
    /\ remote = << << >> >>
    /\ InitPagIdle
    /\ cloudTrailEvent = NilRef
    /\ extractOut = NotCalledOut
    /\ InitCadIdle
    /\ InitResizeIdle
    /\ InitNewIdle
    /\ InitDrainIdle
    /\ fcCluster \in FetchClusters
    /\ fcEnv \in FetchEnvs
    /\ fcPc = "start"
    /\ fcOut = NotReturned

CallFetchClusterDetails ==
    /\ mode = "fetch"
    /\ fcPc = "start"
    /\ fcOut' = FetchClusterDetails(fcCluster, fcEnv)
    /\ fcPc' = "returned"
    /\ UNCHANGED <<mode, fcCluster, fcEnv>>
    /\ UNCHANGED <<pagVars, extVars, cadVars, cpVars, newVars, drainVars>>

NextFetch == CallFetchClusterDetails

SpecFetch == InitFetch /\ [][NextFetch]_vars

----------------------------------------------------------------------------
(* Properties of FetchClusterDetails *)

\* The cluster behind the key was fetched.
ClusterFetched == fcEnv.keyOk /\ fcEnv.connOk /\ fcEnv.getOk

AllFieldsEmpty(hcp) ==
    /\ hcp.name = "" /\ hcp.internalID = "" /\ hcp.externalID = ""
    /\ hcp.managementClusterID = "" /\ hcp.managementClusterName = ""
    /\ hcp.klusterletNS = << >> /\ hcp.hostedNS = << >>
    /\ hcp.hcpNamespace = << >> /\ hcp.DynatraceURL = ""
    /\ hcp.serviceClusterID = "" /\ hcp.serviceClusterName = ""

\* C25: for a fetched cluster that has no Hypershift and is no management
\* cluster, or whose management-cluster check fails, the error is
\* ErrUnsupportedCluster; for a management cluster only its ID, name and
\* Dynatrace URL are set; with any error every field returned is empty.
C25_FetchClusterDetails ==
    (mode = "fetch" /\ fcPc = "returned") =>
        /\ (ClusterFetched /\ ~fcCluster.hypershift
              /\ (~fcCluster.isMC \/ fcEnv.mcErr)) =>
                 fcOut.err = "not an HCP or MC Cluster"
        /\ (ClusterFetched /\ ~fcCluster.hypershift /\ fcCluster.isMC
              /\ fcOut.err = Nil) =>
                 /\ fcOut.hcpCluster.managementClusterID = fcCluster.id
                 /\ fcOut.hcpCluster.managementClusterName = fcCluster.name
                 /\ fcOut.hcpCluster.DynatraceURL # ""
                 /\ AllFieldsEmpty([fcOut.hcpCluster EXCEPT
                        !.managementClusterID = "",
                        !.managementClusterName = "",
                        !.DynatraceURL = ""])
        /\ fcOut.err # Nil => AllFieldsEmpty(fcOut.hcpCluster)

\* A management cluster whose check failed although it said "yes".
C25_Witness ==
    /\ mode = "fetch"
    /\ fcPc = "returned"
    /\ ClusterFetched
    /\ fcCluster.isMC
    /\ fcEnv.mcErr
    /\ fcEnv.isMCOnErr
    /\ fcOut.err = "not an HCP or MC Cluster"
    /\ AllFieldsEmpty(fcOut.hcpCluster)

\* A management cluster: the three fields and nothing else.
C25_WitnessMC ==
    /\ mode = "fetch"
    /\ fcPc = "returned"
    /\ fcOut.err = Nil
    /\ fcCluster.isMC
    /\ fcOut.hcpCluster.managementClusterName = "hs-mc-1"
    /\ fcOut.hcpCluster.name = ""

====
